---- MODULE Spec2Model ----
(***************************************************************************)
(* Model of the semantic search engine of search_cards.py: the cosine      *)
(* similarity, the two ranking queries (search_cards, find_similar_cards)  *)
(* and the embedding store they scan.                                      *)
(*                                                                         *)
(* Numbers.  Embedding components are small integers, so the dot product   *)
(* and the squared norms are exact.  A similarity dot/(norm1*norm2) is a   *)
(* real number of the form s*sqrt(n/d); it is kept exactly, as the record  *)
(* [s, n, d] with s its sign and n/d the reduced fraction dot^2 /          *)
(* (norm1^2 * norm2^2).  Two similarities are equal iff their records are  *)
(* equal, and they are ordered by s*n/d.  Rounding of float64 is not       *)
(* modelled.                                                               *)
(***************************************************************************)
EXTENDS Integers, Sequences, FiniteSets, TLC

VARIABLES
    embeddings_data,   \* the record collection returned by load_embeddings
    pc,                \* "start" before the query of this run, "done" after it
    call,              \* the arguments of the query that ran
    outcome,           \* what the query did: a returned list or a raised error
    embedding_calls,   \* how many times client.embeddings.create was called
    scanned,           \* how many records the ranking loop of the query visited
    vec1, vec2,        \* the inputs of a direct cosine_similarity call
    similarity,        \* its result
    stdout,            \* what was printed to sys.stdout, one element per print call
    stderr,            \* what was printed to sys.stderr
    exit_code,         \* the status given to sys.exit, None while no exit happened
    args,              \* the parsed command line of main
    environ,           \* what main finds around it: API key, cache file, pyyaml
    query_calls,       \* how many times search_cards or find_similar_cards was called
    turns,             \* how many lines the interactive loop has read
    last_input,        \* the line it read last, as its words
    log,               \* the calls of a session so far, each with what it returned
    current_interpretation_mode,  \* the module global of tarot.py
    history_file,      \* reading_history.json
    daily_file,        \* daily_card.json
    today,             \* the date datetime.now() gives
    draws              \* how many times draw_card was called

\* the output channels of the process
io == <<stdout, stderr, exit_code>>
\* the state of a run of main
cli == <<args, environ, query_calls, turns, last_input>>
\* the state of the menu program tarot.py and of its two files
tarot == <<current_interpretation_mode, history_file, daily_file, today, draws>>

vars == <<embeddings_data, pc, call, outcome, embedding_calls, scanned, vec1, vec2, similarity, io, cli, log, tarot>>

----------------------------------------------------------------------------
(* Bounds of the model *)

\* longest record collection
MaxRecords == 2
\* largest top_k requested
MaxTopK == 2
\* longest vector given to cosine_similarity directly
MaxDim == 3
\* largest absolute value of a component of those vectors
MaxCoord == 2

----------------------------------------------------------------------------
(* Values *)

\* Python's None, for an argument left unspecified
None == "<None>"
\* a record that has no 'interpretation_system' key (older cache format)
Absent == "<absent>"

CardNames == {"The Fool", "The Magician"}
Positions == {"upright", "reversed"}
\* values generate_embeddings writes to the interpretation_system field
SystemFields == {"combined", "rws_traditional"}
\* values given as system_filter
SystemFilters == {None, "combined", "rws_traditional"}
\* values given as position_filter
PositionFilters == {None, "upright", "reversed"}
\* embeddings of stored records (one dimensionality per store)
StoreVectors == {<<1, 0>>, <<1, 1>>}
\* query embeddings returned by the embedding service
QueryVectors == {<<1, 0>>, <<-1, 1>>, <<0, 0>>}
\* top_k values the caller passes
TopKs == 0..MaxTopK

\* records as generate_embeddings writes them ('text' is never read by a query)
EmbeddingRecords ==
    [card_name : CardNames, position : Positions,
     interpretation_system : SystemFields, embedding : StoreVectors]

\* records of the older cache format, written without the interpretation_system key
LegacyRecords ==
    [card_name : CardNames, position : Positions,
     interpretation_system : {Absent}, embedding : StoreVectors]

\* a cache file has one of the two formats
Stores ==
    UNION {[1..n -> EmbeddingRecords] \cup [1..n -> LegacyRecords] : n \in 0..MaxRecords}

----------------------------------------------------------------------------
(* Similarity Engine: cosine_similarity *)

Sign(x) == IF x < 0 THEN -1 ELSE IF x = 0 THEN 0 ELSE 1

RECURSIVE GCD(_, _)
GCD(a, b) == IF b = 0 THEN a ELSE GCD(b, a % b)

\* the float 0.0 and the float 1.0
Zero == [s |-> 0, n |-> 0, d |-> 1]
One == [s |-> 1, n |-> 1, d |-> 1]
\* what numpy gives for 0.0/0.0 (a warning, no exception)
NaN == [s |-> 0, n |-> 0, d |-> 0]

\* a < b on similarities
ScoreLess(a, b) == a.s * a.n * b.d < b.s * b.n * a.d

\* np.dot(vec1, vec2) for two vectors of one length
RECURSIVE np_dot(_, _)
np_dot(a, b) ==
    IF Len(a) = 0 THEN 0
    ELSE Head(a) * Head(b) + np_dot(Tail(a), Tail(b))

\* mutant: the 1-norm taken for the 2-norm, np.linalg.norm(vec, 1)
Abs(x) == IF x < 0 THEN -x ELSE x
RECURSIVE SumAbs(_)
SumAbs(vec) == IF Len(vec) = 0 THEN 0 ELSE Abs(Head(vec)) + SumAbs(Tail(vec))
linalg_norm_sq_OneNorm(vec) == SumAbs(vec) * SumAbs(vec)

\* np.linalg.norm(vec), kept as its square: the result stands for sqrt of it
linalg_norm_sq(vec) == np_dot(vec, vec)

\* dot_product / (norm1 * norm2), the norms given by their squares
Divide(dot_product, norm1_sq, norm2_sq) ==
    IF norm1_sq * norm2_sq = 0 THEN NaN
    ELSE LET num == dot_product * dot_product
             den == norm1_sq * norm2_sq
             g == GCD(den, num)
         IN [s |-> Sign(dot_product), n |-> num \div g, d |-> den \div g]

\* mutant: the zero-norm test is left out
cosine_similarity_NoGuard(a, b) ==
    Divide(np_dot(a, b), linalg_norm_sq(a), linalg_norm_sq(b))

cosine_similarity(a, b) ==
    LET dot_product == np_dot(a, b)
        norm1 == linalg_norm_sq(a)
        norm2 == linalg_norm_sq(b)
    IN IF norm1 = 0 \/ norm2 = 0 THEN Zero
       ELSE Divide(dot_product, norm1, norm2)

----------------------------------------------------------------------------
(* Ranking Query Layer *)

\* mutant: card_data['interpretation_system'] read without the default
GetSystem_NoDefault(card_data) == card_data.interpretation_system

\* card_data.get('interpretation_system', 'combined')
GetSystem(card_data) ==
    IF card_data.interpretation_system = Absent THEN "combined"
    ELSE card_data.interpretation_system

\* system_filter if system_filter else 'combined'
TargetSystem(system_filter) ==
    IF system_filter = None \/ system_filter = "" THEN "combined" ELSE system_filter

\* mutant: reverse=True forgotten, the sort is ascending
RECURSIVE InsertDesc_Ascending(_, _)
InsertDesc_Ascending(sorted, x) ==
    IF sorted = <<>> THEN <<x>>
    ELSE IF ScoreLess(x[3], Head(sorted)[3]) THEN <<x>> \o sorted
    ELSE <<Head(sorted)>> \o InsertDesc_Ascending(Tail(sorted), x)

\* mutant: a descending sort that is not stable, equal keys come out reversed
RECURSIVE InsertDesc_Unstable(_, _)
InsertDesc_Unstable(sorted, x) ==
    IF sorted = <<>> THEN <<x>>
    ELSE IF ~ScoreLess(x[3], Head(sorted)[3]) THEN <<x>> \o sorted
    ELSE <<Head(sorted)>> \o InsertDesc_Unstable(Tail(sorted), x)

\* similarities.sort(key=lambda x: x[2], reverse=True): a stable descending
\* sort; an entry is placed after every entry whose key is not smaller
RECURSIVE InsertDesc(_, _)
InsertDesc(sorted, x) ==
    IF sorted = <<>> THEN <<x>>
    ELSE IF ScoreLess(Head(sorted)[3], x[3]) THEN <<x>> \o sorted
    ELSE <<Head(sorted)>> \o InsertDesc(Tail(sorted), x)

RECURSIVE SortDesc(_)
SortDesc(similarities) ==
    IF similarities = <<>> THEN <<>>
    ELSE InsertDesc(SortDesc(SubSeq(similarities, 1, Len(similarities) - 1)),
                    similarities[Len(similarities)])

\* mutant: similarities[:top_k - 1]
SliceTo_OffByOne(similarities, top_k) ==
    SubSeq(similarities, 1,
           IF top_k - 1 > Len(similarities) THEN Len(similarities) ELSE top_k - 1)

\* similarities[:top_k], the Python slice
SliceTo(similarities, top_k) ==
    LET n == Len(similarities)
        stop == IF top_k < 0 THEN (IF n + top_k < 0 THEN 0 ELSE n + top_k)
                ELSE IF top_k > n THEN n ELSE top_k
    IN SubSeq(similarities, 1, stop)

\* the tuple appended for a record that passed the filters
Triple(card_data, against) ==
    <<card_data.card_name, card_data.position,
      cosine_similarity(against, card_data.embedding)>>

\* mutant: the position filter is ignored
SearchSkips_PositionIgnored(card_data, target_system, position_filter) ==
    GetSystem(card_data) # target_system

\* the loop of search_cards: whether a record is skipped
SearchSkips(card_data, target_system, position_filter) ==
    \/ GetSystem(card_data) # target_system
    \/ position_filter \notin {None, ""} /\ card_data.position # position_filter

RECURSIVE ScanSearch(_, _, _, _)
ScanSearch(data, query_embedding, target_system, position_filter) ==
    IF data = <<>> THEN <<>>
    ELSE LET rest == ScanSearch(Tail(data), query_embedding, target_system, position_filter)
         IN IF SearchSkips(Head(data), target_system, position_filter) THEN rest
            ELSE <<Triple(Head(data), query_embedding)>> \o rest

\* get_query_embedding: the embedding service answers with a vector or fails
Failure == "<failure>"

\* response = client.embeddings.create(...); return response.data[0].embedding
get_query_embedding(service, answer) ==
    IF service = Failure THEN [kind |-> "raise", value |-> "EmbeddingError"]
    ELSE [kind |-> "return", value |-> answer]

\* mutant: the similarities are cut to top_k without being sorted
search_cards_Unsorted(query_embedding, data, top_k, position_filter, system_filter) ==
    SliceTo(ScanSearch(data, query_embedding, TargetSystem(system_filter),
                       position_filter), top_k)

\* the rest of search_cards, given the query embedding
search_cards(query_embedding, data, top_k, position_filter, system_filter) ==
    SliceTo(SortDesc(ScanSearch(data, query_embedding, TargetSystem(system_filter),
                                position_filter)), top_k)

\* str.lower() on the strings of this model
lower(s) ==
    CASE s = "The Fool" -> "the fool"
      [] s = "The Magician" -> "the magician"
      [] s = "Nonexistent Card" -> "nonexistent card"
      [] s = "/Q" -> "/q"
      [] s = "Y" -> "y"
      [] OTHER -> s

\* mutant: the lookup compares the names without regard to letter case
IsTarget_IgnoresCase(card_data, card_name, position, target_system) ==
    /\ lower(card_data.card_name) = lower(card_name)
    /\ card_data.position = position
    /\ GetSystem(card_data) = target_system

\* mutant: the lookup ignores the position
IsTarget_AnyPosition(card_data, card_name, position, target_system) ==
    /\ card_data.card_name = card_name
    /\ GetSystem(card_data) = target_system

\* the lookup loop of find_similar_cards: index of the first matching record, 0 if none
IsTarget(card_data, card_name, position, target_system) ==
    /\ card_data.card_name = card_name
    /\ card_data.position = position
    /\ GetSystem(card_data) = target_system

\* mutant: the lookup stops at the first record of the card, whatever its position
FindTarget_AnyPosition(data, card_name, position, target_system) ==
    LET hits == {i \in 1..Len(data) : /\ data[i].card_name = card_name
                                      /\ GetSystem(data[i]) = target_system}
    IN IF \A i \in 1..Len(data) : ~IsTarget(data[i], card_name, position, target_system)
       THEN 0
       ELSE CHOOSE i \in hits : \A j \in hits : i <= j

FindTarget(data, card_name, position, target_system) ==
    LET hits == {i \in 1..Len(data) : IsTarget(data[i], card_name, position, target_system)}
    IN IF hits = {} THEN 0 ELSE CHOOSE i \in hits : \A j \in hits : i <= j

\* mutant: exclude_same_card is ignored
SimilarSkips_SameCardIgnored(card_data, card_name, position, target_system, exclude_self, exclude_same_card) ==
    \/ GetSystem(card_data) # target_system
    \/ /\ exclude_self
       /\ card_data.card_name = card_name
       /\ card_data.position = position

\* mutant: exclude_self drops the card in both positions
SimilarSkips_SelfDropsCard(card_data, card_name, position, target_system, exclude_self, exclude_same_card) ==
    \/ GetSystem(card_data) # target_system
    \/ exclude_same_card /\ card_data.card_name = card_name
    \/ ~exclude_same_card /\ exclude_self /\ card_data.card_name = card_name

\* mutant: exclude_self is tested first, exclude_same_card only under it
SimilarSkips_SelfFirst(card_data, card_name, position, target_system, exclude_self, exclude_same_card) ==
    \/ GetSystem(card_data) # target_system
    \/ /\ exclude_self
       /\ card_data.card_name = card_name
       /\ exclude_same_card \/ card_data.position = position

\* mutant: the queried pair is dropped whether exclude_self is set or not
SimilarSkips_SelfAlways(card_data, card_name, position, target_system, exclude_self, exclude_same_card) ==
    \/ GetSystem(card_data) # target_system
    \/ exclude_same_card /\ card_data.card_name = card_name
    \/ card_data.card_name = card_name /\ card_data.position = position

\* the second loop of find_similar_cards: whether a record is skipped
SimilarSkips(card_data, card_name, position, target_system, exclude_self, exclude_same_card) ==
    \/ GetSystem(card_data) # target_system
    \/ exclude_same_card /\ card_data.card_name = card_name
    \/ /\ ~exclude_same_card
       /\ exclude_self
       /\ card_data.card_name = card_name
       /\ card_data.position = position

RECURSIVE ScanSimilar(_, _, _, _, _, _, _)
ScanSimilar(data, target_embedding, card_name, position, target_system, exclude_self, exclude_same_card) ==
    IF data = <<>> THEN <<>>
    ELSE LET rest == ScanSimilar(Tail(data), target_embedding, card_name, position,
                                 target_system, exclude_self, exclude_same_card)
         IN IF SimilarSkips(Head(data), card_name, position, target_system,
                            exclude_self, exclude_same_card)
            THEN rest
            ELSE <<Triple(Head(data), target_embedding)>> \o rest

Returned(list) == [kind |-> "return", value |-> list]
Raised(error) == [kind |-> "raise", value |-> error]

find_similar_cards(card_name, position, data, top_k, exclude_self, exclude_same_card, system_filter) ==
    LET target_system == TargetSystem(system_filter)
        t == FindTarget(data, card_name, position, target_system)
    IN IF t = 0 THEN Raised("ValueError")
       ELSE Returned(SliceTo(SortDesc(ScanSimilar(data, data[t].embedding, card_name,
                                                   position, target_system, exclude_self,
                                                   exclude_same_card)), top_k))

\* mutant: search_cards catches the failure of the embedding call and returns
\* the empty list it has
search_cards_call_Swallows(service, answer, data, top_k, position_filter, system_filter) ==
    IF service = Failure
    THEN [outcome |-> Returned(<<>>), embedding_calls |-> 1, scanned |-> 0]
    ELSE [outcome |-> Returned(search_cards(answer, data, top_k, position_filter,
                                            system_filter)),
          embedding_calls |-> 1, scanned |-> Len(data)]

\* search_cards as a whole: the embedding call is its first statement, nothing
\* catches what it raises, and the loop visits every record
search_cards_call(service, answer, data, top_k, position_filter, system_filter) ==
    LET query_embedding == get_query_embedding(service, answer)
    IN IF query_embedding.kind = "raise"
       THEN [outcome |-> query_embedding, embedding_calls |-> 1, scanned |-> 0]
       ELSE [outcome |-> Returned(search_cards(query_embedding.value, data, top_k,
                                               position_filter, system_filter)),
             embedding_calls |-> 1, scanned |-> Len(data)]

----------------------------------------------------------------------------
(* Output Formatting: format_results_as_data, json.dumps, json.loads         *)
(*                                                                           *)
(* A Python str that is prose (a description, an interpretation, ASCII art)  *)
(* is kept as what it quotes and how many characters it has, so that a       *)
(* slice of it is the same quotation with fewer characters.  Printed text    *)
(* and serialized documents are sequences of tokens, each token a record     *)
(* with a field t that says what kind of token it is.                        *)

\* longest results list handed to the formatting layer
MaxResults == 2

Text(of, len) == [of |-> of, len |-> len]
\* text[:n] for n >= 0
TextSlice(text, n) == [of |-> text.of, len |-> IF text.len < n THEN text.len ELSE n]

\* one entry of cards.json: name, desc, rdesc and the two ASCII drawings
Card(name, desc_len, rdesc_len) ==
    [name |-> name,
     desc |-> Text(<<name, "desc">>, desc_len),
     rdesc |-> Text(<<name, "rdesc">>, rdesc_len),
     card |-> Text(<<name, "card">>, 900),
     reversed |-> Text(<<name, "reversed">>, 900)]

TheFool == Card("The Fool", 38, 100)
TheMagician == Card("The Magician", 101, 250)

\* cards_data: the card store (names are unique, the texts non-empty)
CardStores == {<<>>, <<TheFool>>, <<TheFool, TheMagician>>}

\* names a result can carry: the stored ones and one no card store holds
ResultNames == CardNames \cup {"Nonexistent Card"}
\* similarity scores a result can carry: 1.0 and cos(45 degrees)
ResultScores == {One, cosine_similarity(<<1, 0>>, <<1, 1>>)}
ResultTriples == {<<n, p, x>> : n \in ResultNames, p \in Positions, x \in ResultScores}
\* results: list of (card_name, position, similarity_score) tuples
ResultLists == UNION {[1..n -> ResultTriples] : n \in 0..MaxResults}

\* system-specific text of interpretations.json
Interpretation(name, system, position) == Text(<<name, system, position>>, 120)
BothPositions(name, system) ==
    [position \in Positions |-> Interpretation(name, system, position)]

\* interpretations_data: None, or a dict card name -> system -> position -> text
NoneDict == [kind |-> "None"]
Dict(items) == [kind |-> "dict", items |-> items]
InterpretationStores ==
    { NoneDict,
      Dict(<<>>),
      \* The Fool with text in every system, The Magician in one system only
      Dict([name \in CardNames |->
              IF name = "The Fool"
              THEN [system \in {"rws_traditional", "thoth_crowley"} |->
                      BothPositions(name, system)]
              ELSE [system \in {"thoth_crowley"} |-> BothPositions(name, system)]]),
      \* The Fool only, one system with its upright text only, and a
      \* 'combined' entry that no lookup is to read
      Dict([name \in {"The Fool"} |->
              [system \in {"rws_traditional", "combined"} |->
                 IF system = "combined" THEN BothPositions(name, system)
                 ELSE [position \in {"upright"} |->
                         Interpretation(name, system, position)]]]) }

\* bool(interpretations_data): None and the empty dict are false
Truthy(dict) == dict.kind = "dict" /\ DOMAIN dict.items # {}

\* {card['name']: card for card in cards_data}: the last card of a name wins
card_lookup(cards_data) ==
    [name \in {cards_data[k].name : k \in DOMAIN cards_data} |->
        cards_data[CHOOSE k \in DOMAIN cards_data :
                      /\ cards_data[k].name = name
                      /\ \A j \in DOMAIN cards_data :
                            cards_data[j].name = name => j <= k]]

\* card['desc'] if position == 'upright' else card['rdesc']
BasicMeaning(card, position) == IF position = "upright" THEN card.desc ELSE card.rdesc

\* mutant: the fallback always takes the upright description
SelectMeaning_UprightOnly(card, card_name, position, system, interpretations_data) ==
    IF system # "combined" /\ Truthy(interpretations_data)
       /\ card_name \in DOMAIN interpretations_data.items
    THEN LET card_interp == interpretations_data.items[card_name]
         IN IF system \in DOMAIN card_interp /\ position \in DOMAIN card_interp[system]
            THEN card_interp[system][position]
            ELSE card.desc
    ELSE card.desc

\* the meaning of one result: the system-specific text, or the basic meaning
SelectMeaning(card, card_name, position, system, interpretations_data) ==
    IF system # "combined" /\ Truthy(interpretations_data)
       /\ card_name \in DOMAIN interpretations_data.items
    THEN LET card_interp == interpretations_data.items[card_name]
         IN IF system \in DOMAIN card_interp /\ position \in DOMAIN card_interp[system]
            THEN card_interp[system][position]
            ELSE BasicMeaning(card, position)
    ELSE BasicMeaning(card, position)

\* float(score)
Float(score) == [type |-> "float", value |-> score]

\* the dict appended for one result
ResultEntry(card, card_name, position, score, system, interpretations_data) ==
    [card_name |-> card_name,
     position |-> position,
     similarity |-> Float(score),
     meaning |-> SelectMeaning(card, card_name, position, system, interpretations_data)]

\* mutant: the loop is left at the first result without a card (break for continue)
RECURSIVE format_results_as_data_Breaks(_, _, _, _)
format_results_as_data_Breaks(results, cards_data, system, interpretations_data) ==
    IF results = <<>> THEN <<>>
    ELSE LET lookup == card_lookup(cards_data)
             card_name == Head(results)[1]
         IN IF card_name \notin DOMAIN lookup THEN <<>>
            ELSE <<ResultEntry(lookup[card_name], card_name, Head(results)[2],
                               Head(results)[3], system, interpretations_data)>>
                 \o format_results_as_data_Breaks(Tail(results), cards_data, system,
                                                  interpretations_data)

\* format_results_as_data(results, cards_data, system, interpretations_data):
\* a result whose card is not in the lookup is passed over
RECURSIVE format_results_as_data(_, _, _, _)
format_results_as_data(results, cards_data, system, interpretations_data) ==
    IF results = <<>> THEN <<>>
    ELSE LET lookup == card_lookup(cards_data)
             card_name == Head(results)[1]
             rest == format_results_as_data(Tail(results), cards_data, system,
                                            interpretations_data)
         IN IF card_name \notin DOMAIN lookup THEN rest
            ELSE <<ResultEntry(lookup[card_name], card_name, Head(results)[2],
                               Head(results)[3], system, interpretations_data)>>
                 \o rest

\* the keys of a result entry, in the order the dict was built
EntryKeys == <<"card_name", "position", "similarity", "meaning">>

\* json.dumps of a str: the text between double quotes
JsonString(s) == [t |-> "string", quote |-> "\"", s |-> s]
\* json.dumps of a float: float.__repr__, digits that always carry a fraction part
JsonFloat(x) == [t |-> "number", fraction |-> TRUE, x |-> x.value]
Punct(t) == [t |-> t]

\* mutant: the list printed as Python writes it, str(formatted_data), with
\* single quotes around every string
PyString(s) == [t |-> "string", quote |-> "'", s |-> s]
RECURSIVE PyMembers(_, _)
PyMembers(entry, keys) ==
    IF keys = <<>> THEN <<>>
    ELSE <<PyString(Head(keys)), Punct(":"),
           IF Head(keys) = "similarity" THEN JsonFloat(entry[Head(keys)])
           ELSE PyString(entry[Head(keys)])>>
         \o (IF Tail(keys) = <<>> THEN <<>> ELSE <<Punct(",")>>)
         \o PyMembers(entry, Tail(keys))
RECURSIVE PyElements(_)
PyElements(data) ==
    IF data = <<>> THEN <<>>
    ELSE <<Punct("{")>> \o PyMembers(Head(data), EntryKeys) \o <<Punct("}")>>
         \o (IF Tail(data) = <<>> THEN <<>> ELSE <<Punct(",")>>)
         \o PyElements(Tail(data))
json_dumps_PythonRepr(data) == <<Punct("[")>> \o PyElements(data) \o <<Punct("]")>>

\* the tokens of one value of a result entry
JsonValue(key, value) == IF key = "similarity" THEN JsonFloat(value) ELSE JsonString(value)

RECURSIVE JsonMembers(_, _)
JsonMembers(entry, keys) ==
    IF keys = <<>> THEN <<>>
    ELSE <<JsonString(Head(keys)), Punct(":"), JsonValue(Head(keys), entry[Head(keys)])>>
         \o (IF Tail(keys) = <<>> THEN <<>> ELSE <<Punct(",")>>)
         \o JsonMembers(entry, Tail(keys))

JsonObject(entry) == <<Punct("{")>> \o JsonMembers(entry, EntryKeys) \o <<Punct("}")>>

RECURSIVE JsonElements(_)
JsonElements(data) ==
    IF data = <<>> THEN <<>>
    ELSE JsonObject(Head(data))
         \o (IF Tail(data) = <<>> THEN <<>> ELSE <<Punct(",")>>)
         \o JsonElements(Tail(data))

\* json.dumps(formatted_data, indent=2): the document as its tokens (the
\* indentation is white space between them)
json_dumps(data) == <<Punct("[")>> \o JsonElements(data) \o <<Punct("]")>>

\* the kind of the token at position i, "<end>" past the last one
TokenAt(tokens, i) == IF i \in DOMAIN tokens THEN tokens[i].t ELSE "<end>"

ParseError == [ok |-> FALSE]
Parsed(value, next) == [ok |-> TRUE, value |-> value, next |-> next]

\* a JSON string or number at position i
ParseScalar(tokens, i) ==
    IF TokenAt(tokens, i) = "string" /\ tokens[i].quote = "\""
    THEN Parsed([type |-> "str", value |-> tokens[i].s], i + 1)
    ELSE IF TokenAt(tokens, i) = "number"
    THEN Parsed([type |-> IF tokens[i].fraction THEN "float" ELSE "int",
                 value |-> tokens[i].x], i + 1)
    ELSE ParseError

\* the members of an object from position i on: "key": value, ... }
RECURSIVE ParseMembers(_, _, _)
ParseMembers(tokens, i, object) ==
    IF ~(TokenAt(tokens, i) = "string" /\ tokens[i].quote = "\""
         /\ TokenAt(tokens, i + 1) = ":")
    THEN ParseError
    ELSE LET value == ParseScalar(tokens, i + 2)
         IN IF ~value.ok THEN ParseError
            ELSE LET grown == (tokens[i].s :> value.value) @@ object
                 IN IF TokenAt(tokens, value.next) = "}"
                    THEN Parsed(grown, value.next + 1)
                    ELSE IF TokenAt(tokens, value.next) = ","
                    THEN ParseMembers(tokens, value.next + 1, grown)
                    ELSE ParseError

ParseObject(tokens, i) ==
    IF TokenAt(tokens, i) # "{" THEN ParseError
    ELSE IF TokenAt(tokens, i + 1) = "}" THEN Parsed(<<>>, i + 2)
    ELSE ParseMembers(tokens, i + 1, <<>>)

\* the elements of an array from position i on: object, ... ]
RECURSIVE ParseElements(_, _, _)
ParseElements(tokens, i, list) ==
    LET object == ParseObject(tokens, i)
    IN IF ~object.ok THEN ParseError
       ELSE IF TokenAt(tokens, object.next) = "]"
       THEN Parsed(Append(list, object.value), object.next + 1)
       ELSE IF TokenAt(tokens, object.next) = ","
       THEN ParseElements(tokens, object.next + 1, Append(list, object.value))
       ELSE ParseError

\* json.loads(text) for a document that is one array of flat objects: the
\* parsed list, or a failure when the tokens are no such document or when
\* anything follows the closing bracket
json_loads(tokens) ==
    IF TokenAt(tokens, 1) # "[" THEN ParseError
    ELSE LET list == IF TokenAt(tokens, 2) = "]" THEN Parsed(<<>>, 3)
                     ELSE ParseElements(tokens, 2, <<>>)
         IN IF list.ok /\ list.next = Len(tokens) + 1 THEN list ELSE ParseError

\* yaml.dump(formatted_data, default_flow_style=False, sort_keys=False): a
\* block sequence of block mappings, "[]" for the empty list
YamlScalar(key, value) ==
    IF key = "similarity" THEN [t |-> "number", fraction |-> TRUE, x |-> value.value]
    ELSE [t |-> "plain", scalar |-> value]
RECURSIVE YamlMembers(_, _)
YamlMembers(entry, keys) ==
    IF keys = <<>> THEN <<>>
    ELSE <<[t |-> "key", s |-> Head(keys)], YamlScalar(Head(keys), entry[Head(keys)])>>
         \o YamlMembers(entry, Tail(keys))
RECURSIVE YamlItems(_)
YamlItems(data) ==
    IF data = <<>> THEN <<>>
    ELSE <<Punct("-")>> \o YamlMembers(Head(data), EntryKeys) \o YamlItems(Tail(data))
yaml_dump(data) == IF data = <<>> THEN <<Punct("[]")>> ELSE YamlItems(data)

----------------------------------------------------------------------------
(* Output Formatting: display_search_results *)

\* exit_code while sys.exit has not been called
NotExited == -1

Line(s) == <<[t |-> "text", s |-> s]>>
\* "=" * 70
Separator == <<[t |-> "separator", char |-> "=", width |-> 70]>>
\* print() without arguments
BlankLine == <<>>

\* position.upper()
upper(position) ==
    CASE position = "upright" -> "UPRIGHT"
      [] position = "reversed" -> "REVERSED"
      [] OTHER -> position

\* the largest k in lo..hi with (2k - 1)^2 * d <= 4 * 10^8 * n, which is
\* 10^4 * sqrt(n/d) rounded to the nearest integer
RECURSIVE RoundSearch(_, _, _, _)
RoundSearch(lo, hi, n, d) ==
    IF lo = hi THEN lo
    ELSE LET mid == (lo + hi + 1) \div 2
         IN IF (2 * mid - 1) * (2 * mid - 1) * d <= 400000000 * n
            THEN RoundSearch(mid, hi, n, d)
            ELSE RoundSearch(lo, mid - 1, n, d)

\* f"{score:.4f}": the sign and the number of ten-thousandths, "nan" for NaN
format_4f(score) ==
    IF score.d = 0 THEN [nan |-> TRUE, sign |-> 0, ten_thousandths |-> 0]
    ELSE [nan |-> FALSE, sign |-> score.s,
          ten_thousandths |-> RoundSearch(0, 10000, score.n, score.d)]

\* mutant: the human-readable loop always takes the description of the card
DisplayMeaning_BasicOnly(card, card_name, position, system, interpretations_data) ==
    IF position = "upright" THEN card.desc ELSE card.rdesc

\* the meaning the human-readable loop picks for one result
DisplayMeaning(card, card_name, position, system, interpretations_data) ==
    IF system # "combined" /\ Truthy(interpretations_data)
       /\ card_name \in DOMAIN interpretations_data.items
    THEN LET card_interp == interpretations_data.items[card_name]
         IN IF system \in DOMAIN card_interp /\ position \in DOMAIN card_interp[system]
            THEN card_interp[system][position]
            ELSE IF position = "upright" THEN card.desc ELSE card.rdesc
    ELSE IF position = "upright" THEN card.desc ELSE card.rdesc

\* mutant: the slice is forgotten and the art is always the upright drawing
HumanEntry_WholeAndUpright(i, card, card_name, position, score, system, interpretations_data, show_art) ==
    LET meaning == DisplayMeaning(card, card_name, position, system, interpretations_data)
    IN << <<[t |-> "rank", i |-> i, card_name |-> card_name,
             position |-> upper(position)]>>,
          <<[t |-> "Similarity:", value |-> format_4f(score)]>>,
          <<[t |-> "Meaning:", meaning |-> meaning, ellipsis |-> ~show_art]>> >>
       \o (IF show_art
           THEN <<BlankLine, <<[t |-> "art", s |-> card.card]>>, BlankLine>>
           ELSE <<>>)

\* what the human-readable loop prints for one result that has a card
HumanEntry(i, card, card_name, position, score, system, interpretations_data, show_art) ==
    LET meaning == DisplayMeaning(card, card_name, position, system, interpretations_data)
    IN << <<[t |-> "rank", i |-> i, card_name |-> card_name,
             position |-> upper(position)]>>,
          <<[t |-> "Similarity:", value |-> format_4f(score)]>>,
          IF show_art
          THEN <<[t |-> "Meaning:", meaning |-> meaning, ellipsis |-> FALSE]>>
          ELSE <<[t |-> "Meaning:", meaning |-> TextSlice(meaning, 100),
                  ellipsis |-> TRUE]>> >>
       \o (IF show_art
           THEN <<BlankLine,
                  <<[t |-> "art",
                     s |-> IF position = "reversed" /\ "reversed" \in DOMAIN card
                           THEN card.reversed ELSE card.card]>>,
                  BlankLine>>
           ELSE <<>>)

\* mutant: the counter is advanced only for the results that are shown
RECURSIVE HumanEntries_Consecutive(_, _, _, _, _, _)
HumanEntries_Consecutive(results, i, lookup, system, interpretations_data, show_art) ==
    IF results = <<>> THEN <<>>
    ELSE LET card_name == Head(results)[1]
         IN IF card_name \notin DOMAIN lookup
            THEN HumanEntries_Consecutive(Tail(results), i, lookup, system,
                                          interpretations_data, show_art)
            ELSE HumanEntry(i, lookup[card_name], card_name, Head(results)[2],
                            Head(results)[3], system, interpretations_data, show_art)
                 \o HumanEntries_Consecutive(Tail(results), i + 1, lookup, system,
                                             interpretations_data, show_art)

\* for i, (card_name, position, score) in enumerate(results, 1): a result
\* without a card is passed over, and i counts it all the same
RECURSIVE HumanEntries(_, _, _, _, _, _)
HumanEntries(results, i, lookup, system, interpretations_data, show_art) ==
    IF results = <<>> THEN <<>>
    ELSE LET card_name == Head(results)[1]
             rest == HumanEntries(Tail(results), i + 1, lookup, system,
                                  interpretations_data, show_art)
         IN IF card_name \notin DOMAIN lookup THEN rest
            ELSE HumanEntry(i, lookup[card_name], card_name, Head(results)[2],
                            Head(results)[3], system, interpretations_data, show_art)
                 \o rest

Printed(out, err, status) == [stdout |-> out, stderr |-> err, exit |-> status]

\* display_search_results(results, cards_data, output_format, system,
\* interpretations_data, show_art), with the module's YAML_AVAILABLE
display_search_results(results, cards_data, output_format, system, interpretations_data, show_art, yaml_available) ==
    IF output_format \in {"json", "yaml"}
    THEN LET formatted_data == format_results_as_data(results, cards_data, system,
                                                      interpretations_data)
         IN IF output_format = "json"
            THEN Printed(<<json_dumps(formatted_data)>>, <<>>, NotExited)
            ELSE IF ~yaml_available
            THEN Printed(<<>>,
                         <<Line("Error: pyyaml not installed. Install with: pip install pyyaml")>>,
                         1)
            ELSE Printed(<<yaml_dump(formatted_data)>>, <<>>, NotExited)
    ELSE Printed(<<<<[t |-> "newline"]>> \o Separator, Line("SEARCH RESULTS"), Separator>>
                 \o HumanEntries(results, 1, card_lookup(cards_data), system,
                                 interpretations_data, show_art),
                 <<>>, NotExited)

----------------------------------------------------------------------------
(* The run: one store, one query *)

NoCall == [op |-> "none"]
NoOutcome == [kind |-> "none"]
NoVector == <<>>
NoArgs == [mode |-> "none"]
NoEnviron == [kind |-> "none"]

\* a file that is not on disk
MissingFile == [state |-> "missing"]

\* no session, and tarot.py as it is when imported, with neither of its files
NotRunning ==
    /\ log = <<>>
    /\ current_interpretation_mode = "rws_traditional"
    /\ history_file = MissingFile
    /\ daily_file = MissingFile
    /\ today = 1
    /\ draws = 0

\* nothing printed, no exit, no command line: the state outside a run of main
Idle ==
    /\ NotRunning
    /\ stdout = <<>>
    /\ stderr = <<>>
    /\ exit_code = NotExited
    /\ args = NoArgs
    /\ environ = NoEnviron
    /\ query_calls = 0
    /\ turns = 0
    /\ last_input = <<>>

Init ==
    /\ embeddings_data \in Stores
    /\ pc = "start"
    /\ call = NoCall
    /\ outcome = NoOutcome
    /\ embedding_calls = 0
    /\ scanned = 0
    /\ vec1 = NoVector
    /\ vec2 = NoVector
    /\ similarity = Zero
    /\ Idle

\* search_cards(query, embeddings_data, client, top_k, position_filter, system_filter):
\* the embedding call comes first, and its exception leaves the function
SearchCards ==
    /\ pc = "start"
    /\ \E service \in {"answers", Failure}, top_k \in TopKs,
          position_filter \in PositionFilters, system_filter \in SystemFilters :
          \E answer \in (IF service = Failure THEN {NoVector} ELSE QueryVectors) :
              /\ call' = [op |-> "search_cards", service |-> service,
                          query_embedding |-> answer, top_k |-> top_k,
                          position_filter |-> position_filter,
                          system_filter |-> system_filter]
              /\ LET done == search_cards_call(service, answer, embeddings_data, top_k,
                                               position_filter, system_filter)
                 IN /\ outcome' = done.outcome
                    /\ embedding_calls' = embedding_calls + done.embedding_calls
                    /\ scanned' = done.scanned
    /\ pc' = "done"
    /\ UNCHANGED <<embeddings_data, vec1, vec2, similarity, io, cli, log, tarot>>

FindSimilarCards ==
    /\ pc = "start"
    /\ \E card_name \in CardNames, position \in Positions, top_k \in TopKs,
          exclude_self \in BOOLEAN, exclude_same_card \in BOOLEAN,
          system_filter \in SystemFilters :
          /\ call' = [op |-> "find_similar_cards", card_name |-> card_name,
                      position |-> position, top_k |-> top_k,
                      exclude_self |-> exclude_self,
                      exclude_same_card |-> exclude_same_card,
                      system_filter |-> system_filter]
          /\ outcome' = find_similar_cards(card_name, position, embeddings_data, top_k,
                                           exclude_self, exclude_same_card, system_filter)
    /\ scanned' = IF outcome'.kind = "raise" THEN 0 ELSE Len(embeddings_data)
    /\ pc' = "done"
    /\ UNCHANGED <<embeddings_data, embedding_calls, vec1, vec2, similarity, io, cli, log, tarot>>

Next == SearchCards \/ FindSimilarCards

Spec == Init /\ [][Next]_vars

----------------------------------------------------------------------------
(* cosine_similarity called directly on two vectors of one length *)

Coords == (-MaxCoord)..MaxCoord
VectorsOfDim(dim) == [1..dim -> Coords]

InitCosine ==
    /\ embeddings_data = <<>>
    /\ pc = "start"
    /\ call = NoCall
    /\ outcome = NoOutcome
    /\ embedding_calls = 0
    /\ scanned = 0
    /\ \E dim \in 0..MaxDim : vec1 \in VectorsOfDim(dim) /\ vec2 \in VectorsOfDim(dim)
    /\ similarity = Zero
    /\ Idle

CosineSimilarity ==
    /\ pc = "start"
    /\ call' = [op |-> "cosine_similarity"]
    /\ similarity' = cosine_similarity(vec1, vec2)
    /\ pc' = "done"
    /\ UNCHANGED <<embeddings_data, outcome, embedding_calls, scanned, vec1, vec2, io, cli, log, tarot>>

NextCosine == CosineSimilarity

SpecCosine == InitCosine /\ [][NextCosine]_vars

----------------------------------------------------------------------------
(* The formatting layer called directly, as the output-format tests call it *)

\* values of output_format
OutputFormats == {None, "json", "yaml"}

InitFormat ==
    /\ embeddings_data = <<>>
    /\ pc = "start"
    /\ call = NoCall
    /\ outcome = NoOutcome
    /\ embedding_calls = 0
    /\ scanned = 0
    /\ vec1 = NoVector
    /\ vec2 = NoVector
    /\ similarity = Zero
    /\ stdout = <<>>
    /\ stderr = <<>>
    /\ exit_code = NotExited
    /\ args = NoArgs
    /\ environ \in [api_key : {TRUE}, embeddings_file : {TRUE}, yaml_available : BOOLEAN]
    /\ query_calls = 0
    /\ turns = 0
    /\ last_input = <<>>
    /\ NotRunning

FormatResultsAsData ==
    /\ pc = "start"
    /\ \E results \in ResultLists, cards_data \in CardStores, system \in SystemFields,
          interpretations_data \in InterpretationStores :
          /\ call' = [op |-> "format_results_as_data", results |-> results,
                      cards_data |-> cards_data, system |-> system,
                      interpretations_data |-> interpretations_data]
          /\ outcome' = Returned(format_results_as_data(results, cards_data, system,
                                                        interpretations_data))
    /\ pc' = "done"
    /\ UNCHANGED <<embeddings_data, embedding_calls, scanned, vec1, vec2, similarity,
                   io, cli, log, tarot>>

DisplaySearchResults ==
    /\ pc = "start"
    /\ \E results \in ResultLists, cards_data \in CardStores, system \in SystemFields,
          interpretations_data \in InterpretationStores,
          output_format \in OutputFormats, show_art \in BOOLEAN :
          /\ call' = [op |-> "display_search_results", results |-> results,
                      cards_data |-> cards_data, system |-> system,
                      interpretations_data |-> interpretations_data,
                      output_format |-> output_format, show_art |-> show_art]
          /\ LET printed == display_search_results(results, cards_data, output_format,
                                                   system, interpretations_data,
                                                   show_art, environ.yaml_available)
             IN /\ stdout' = stdout \o printed.stdout
                /\ stderr' = stderr \o printed.stderr
                /\ exit_code' = printed.exit
                /\ outcome' = IF printed.exit = NotExited THEN Returned(<<>>)
                              ELSE Raised("SystemExit")
    /\ pc' = "done"
    /\ UNCHANGED <<embeddings_data, embedding_calls, scanned, vec1, vec2, similarity,
                   cli, log, tarot>>

NextFormat == FormatResultsAsData \/ DisplaySearchResults

SpecFormat == InitFormat /\ [][NextFormat]_vars

----------------------------------------------------------------------------
(* The command line: main and interactive_search *)

\* longest interactive session, in lines read at the "Search query: " prompt
MaxTurns == 2

\* cards.json and interpretations.json, the static data shipped with the program
load_cards == <<TheFool, TheMagician>>
load_interpretations ==
    Dict([name \in CardNames |->
            [system \in {"rws_traditional", "thoth_crowley"} |->
               BothPositions(name, system)]])

\* contents of card_embeddings.json: an empty cache, and one that holds The
\* Fool upright and The Magician reversed in the combined system only
CacheRecord(card_name, position, embedding) ==
    [card_name |-> card_name, position |-> position,
     interpretation_system |-> "combined", embedding |-> embedding]
CacheFiles ==
    { <<>>,
      <<CacheRecord("The Fool", "upright", <<1, 0>>),
        CacheRecord("The Magician", "reversed", <<1, 1>>)>> }

\* what a run finds: OPENAI_API_KEY set or not, the cache file there or not
\* (and its contents), pyyaml importable or not
Environments ==
    {e \in [api_key : BOOLEAN, embeddings_file : BOOLEAN, cache : CacheFiles,
            yaml_available : BOOLEAN] : ~e.embeddings_file => e.cache = <<>>}

\* parsed command lines: a query, or --similar CARD with its flags, or neither
\* (interactive mode); --json and --yaml go with each of them
CommandLines ==
    {a \in [query : {None, "new beginnings"},
            similar : {None, "the fool", "Nonexistent Card"},
            reversed : BOOLEAN, include_same_card : BOOLEAN, top : 1..MaxTopK,
            interactive : BOOLEAN, json : BOOLEAN, yaml : BOOLEAN,
            system : SystemFields, show_art : BOOLEAN] :
        /\ (a.reversed \/ a.include_same_card) => a.similar # None
        /\ a.query # None => a.similar = None /\ ~a.interactive
        /\ (a.query = None /\ a.similar = None) =>
              a.top = 1 /\ a.system = "combined" /\ ~a.show_art
        /\ a.interactive => a.query = None /\ a.similar = None}

\* bool(s) for an optional string
Given(s) == s # None /\ s # ""

\* the message of the FileNotFoundError load_embeddings raises
FileNotFoundMessage ==
    "Embeddings file not found: card_embeddings.json\nPlease run generate_embeddings.py first to create embeddings."

\* mutant: a missing cache file is read as an empty store
load_embeddings_EmptyOnMissing(env) == Returned(env.cache)

load_embeddings(env) ==
    IF ~env.embeddings_file THEN Raised(FileNotFoundMessage) ELSE Returned(env.cache)

\* f"Error: {e}"
ErrorLine(e) == <<[t |-> "text", s |-> "Error: "], [t |-> "text", s |-> e]>>
\* f"{ballot x} Error: {e}", the first character being U+2717
BallotErrorLine(e) ==
    <<[t |-> "ballot x"], [t |-> "text", s |-> " Error: "], [t |-> "text", s |-> e]>>
\* f"{ballot x} Card not found: {name}"
CardNotFoundLine(name) ==
    <<[t |-> "ballot x"], [t |-> "text", s |-> " Card not found: "],
      [t |-> "text", s |-> name]>>
ApiKeyLines ==
    <<Line("Error: OPENAI_API_KEY environment variable not set"),
      Line("Please set it with: export OPENAI_API_KEY='your-key-here'")>>
\* f"Searching for: '{query}'..."
SearchingLine(query) == <<[t |-> "status", s |-> "Searching for: ", about |-> <<query>>]>>
\* f"Finding cards similar to '{name}' ({position})..."
FindingLine(name, position) ==
    <<[t |-> "status", s |-> "Finding cards similar to ", about |-> <<name, position>>]>>

\* for c in cards_data: if c['name'].lower() == name.lower(): the index of
\* the first such card, 0 if there is none
FindCard(cards_data, name) ==
    LET found == {k \in DOMAIN cards_data : lower(cards_data[k].name) = lower(name)}
    IN IF found = {} THEN 0 ELSE CHOOSE k \in found : \A j \in found : k <= j

\* what a stretch of code did: its prints, the exit status, and the query it made
Effect(out, err, status, made, result, calls) ==
    [stdout |-> out, stderr |-> err, exit |-> status, call |-> made,
     outcome |-> result, embedding_calls |-> calls]

\* the status sys.exit leaves, 0 when display_search_results returned
StatusAfter(printed) == IF printed.exit = NotExited THEN 0 ELSE printed.exit

\* output_format of main
OutputFormat(a) == IF a.json THEN "json" ELSE IF a.yaml THEN "yaml" ELSE None

\* main, --similar mode
main_similar(a, embeddings, cards_data, interpretations_data, yaml_available) ==
    LET output_format == OutputFormat(a)
        k == FindCard(cards_data, a.similar)
    IN IF k = 0
       THEN Effect(<<CardNotFoundLine(a.similar), Line("\nAvailable cards:")>>
                   \o [i \in 1..(IF Len(cards_data) < 10 THEN Len(cards_data) ELSE 10) |->
                         <<[t |-> "text", s |-> "  - "],
                           [t |-> "text", s |-> cards_data[i].name]>>]
                   \o <<Line("  ...")>>,
                   <<>>, 1, NoCall, NoOutcome, 0)
       ELSE LET card == cards_data[k]
                position == IF a.reversed THEN "reversed" ELSE "upright"
                status == IF output_format = None
                          THEN <<FindingLine(card.name, position)>> ELSE <<>>
                made == [op |-> "find_similar_cards", card_name |-> card.name,
                         position |-> position, top_k |-> a.top,
                         exclude_self |-> TRUE,
                         exclude_same_card |-> ~a.include_same_card,
                         system_filter |-> a.system]
                result == find_similar_cards(card.name, position, embeddings, a.top,
                                             TRUE, ~a.include_same_card, a.system)
            IN IF result.kind = "raise"
               THEN Effect(status, <<BallotErrorLine(result.value)>>, 1, made, result, 0)
               ELSE LET printed == display_search_results(result.value, cards_data,
                                       output_format, a.system, interpretations_data,
                                       a.show_art, yaml_available)
                    IN Effect(status \o printed.stdout, printed.stderr,
                              StatusAfter(printed), made, result, 0)

\* main, semantic search mode
main_query(a, embeddings, cards_data, interpretations_data, yaml_available, service, answer) ==
    LET output_format == OutputFormat(a)
        status == IF output_format = None THEN <<SearchingLine(a.query)>> ELSE <<>>
        made == [op |-> "search_cards", service |-> service, query_embedding |-> answer,
                 top_k |-> a.top, position_filter |-> None, system_filter |-> a.system]
        done == search_cards_call(service, answer, embeddings, a.top, None, a.system)
    IN IF done.outcome.kind = "raise"
       THEN Effect(status, <<BallotErrorLine(done.outcome.value)>>, 1, made,
                   done.outcome, done.embedding_calls)
       ELSE LET printed == display_search_results(done.outcome.value, cards_data,
                               output_format, a.system, interpretations_data,
                               a.show_art, yaml_available)
            IN Effect(status \o printed.stdout, printed.stderr, StatusAfter(printed),
                      made, done.outcome, done.embedding_calls)

\* main past the interactive test: API key, load, then one of the two modes
main(a, env, service, answer) ==
    IF ~env.api_key
    THEN [loaded |-> <<>>] @@ Effect(ApiKeyLines, <<>>, 1, NoCall, NoOutcome, 0)
    ELSE LET loaded == load_embeddings(env)
         IN IF loaded.kind = "raise"
            THEN [loaded |-> <<>>]
                 @@ Effect(<<ErrorLine(loaded.value)>>, <<>>, 1, NoCall, NoOutcome, 0)
            ELSE [loaded |-> loaded.value]
                 @@ (IF Given(a.similar)
                     THEN main_similar(a, loaded.value, load_cards, load_interpretations,
                                       env.yaml_available)
                     ELSE IF Given(a.query)
                     THEN main_query(a, loaded.value, load_cards, load_interpretations,
                                     env.yaml_available, service, answer)
                     ELSE Effect(<<>>, <<>>, 0, NoCall, NoOutcome, 0))

\* interactive_search up to its loop: API key, load, banner
interactive_search(env) ==
    IF ~env.api_key
    THEN [stdout |-> ApiKeyLines, at |-> "done", loaded |-> <<>>]
    ELSE LET loaded == load_embeddings(env)
         IN IF loaded.kind = "raise"
            THEN [stdout |-> <<Line("Loading embeddings and card data..."),
                               ErrorLine(loaded.value)>>,
                  at |-> "done", loaded |-> <<>>]
            ELSE [stdout |-> <<Line("Loading embeddings and card data..."),
                               <<[t |-> "loaded", embeddings |-> Len(loaded.value),
                                  cards |-> Len(load_cards)]>>,
                               <<[t |-> "newline"]>> \o Separator,
                               Line("TAROT CARD SEMANTIC SEARCH"),
                               Separator,
                               Line("\nSearch for cards by theme, concept, or feeling."),
                               Line("Examples: 'new beginnings', 'letting go', 'inner strength', 'confusion'"),
                               Line("\nCommands:"),
                               Line("  /similar <card name>  - Find cards similar to a specific card"),
                               Line("  /quit                 - Exit"),
                               Separator>>,
                  at |-> "prompt", loaded |-> loaded.value]

\* lines typed at the "Search query: " prompt, stripped, as their words: the
\* empty line, the three quit commands (one in capitals), /similar with a
\* stored and with an unknown card, and a search text
InputLines ==
    { <<>>, <<"/quit">>, <<"/exit">>, <<"/Q">>,
      <<"/similar", "the fool">>, <<"/similar", "Nonexistent Card">>,
      <<"new beginnings">> }
\* answers typed at the "Position (u/r, default: u): " prompt
PositionInputs == {"r", ""}

Prompt(s) == <<[t |-> "prompt", s |-> s]>>

\* one pass of the loop: whether the loop was left, the prints, the query made
Turn(left, out, made, result, calls) ==
    [break |-> left, stdout |-> out, call |-> made, outcome |-> result,
     embedding_calls |-> calls]

\* mutant: the semantic search of the loop runs outside any try, its failure
\* leaves the loop
interactive_query_Uncaught(query, embeddings, cards_data, interpretations_data, service, answer) ==
    LET made == [op |-> "search_cards", service |-> service, query_embedding |-> answer,
                 top_k |-> 5, position_filter |-> None, system_filter |-> None]
        done == search_cards_call(service, answer, embeddings, 5, None, None)
    IN IF done.outcome.kind = "raise"
       THEN Turn(TRUE, <<SearchingLine(query)>>, made, done.outcome,
                 done.embedding_calls)
       ELSE Turn(FALSE,
                 <<SearchingLine(query)>>
                 \o display_search_results(done.outcome.value, cards_data, None,
                        "combined", interpretations_data, FALSE, TRUE).stdout,
                 made, done.outcome, done.embedding_calls)

\* the else branch of the loop: a semantic search with top_k=5, any Exception
\* printed and the loop resumed
interactive_query(query, embeddings, cards_data, interpretations_data, service, answer) ==
    LET made == [op |-> "search_cards", service |-> service, query_embedding |-> answer,
                 top_k |-> 5, position_filter |-> None, system_filter |-> None]
        done == search_cards_call(service, answer, embeddings, 5, None, None)
    IN IF done.outcome.kind = "raise"
       THEN Turn(FALSE, <<SearchingLine(query), BallotErrorLine(done.outcome.value)>>,
                 made, done.outcome, done.embedding_calls)
       ELSE Turn(FALSE,
                 <<SearchingLine(query)>>
                 \o display_search_results(done.outcome.value, cards_data, None,
                        "combined", interpretations_data, FALSE, TRUE).stdout,
                 made, done.outcome, done.embedding_calls)

\* the /similar branch of the loop
interactive_similar(card_name, pos_input, embeddings, cards_data, interpretations_data) ==
    LET k == FindCard(cards_data, card_name)
    IN IF k = 0 THEN Turn(FALSE, <<CardNotFoundLine(card_name)>>, NoCall, NoOutcome, 0)
       ELSE LET card == cards_data[k]
                position == IF lower(pos_input) = "r" THEN "reversed" ELSE "upright"
                made == [op |-> "find_similar_cards", card_name |-> card.name,
                         position |-> position, top_k |-> 5, exclude_self |-> TRUE,
                         exclude_same_card |-> TRUE, system_filter |-> None]
                result == find_similar_cards(card.name, position, embeddings, 5, TRUE,
                                             TRUE, None)
                asked == <<Prompt("Position (u/r, default: u): "),
                           FindingLine(card.name, position)>>
            IN IF result.kind = "raise"
               THEN Turn(FALSE, asked \o <<BallotErrorLine(result.value)>>, made, result, 0)
               ELSE Turn(FALSE,
                         asked \o display_search_results(result.value, cards_data, None,
                                      "combined", interpretations_data, FALSE, TRUE).stdout,
                         made, result, 0)

\* one pass of the while loop of interactive_search on the line read
interactive_turn(line, pos_input, embeddings, cards_data, interpretations_data, service, answer) ==
    LET read == <<BlankLine, Prompt("Search query: ")>>
        pass == IF line = <<>> THEN Turn(FALSE, <<>>, NoCall, NoOutcome, 0)
                ELSE IF Len(line) = 1 /\ lower(line[1]) \in {"/quit", "/exit", "/q"}
                THEN Turn(TRUE, <<Line("\nGoodbye!")>>, NoCall, NoOutcome, 0)
                ELSE IF Len(line) = 2 /\ lower(line[1]) = "/similar"
                THEN interactive_similar(line[2], pos_input, embeddings, cards_data,
                                         interpretations_data)
                ELSE interactive_query(line[1], embeddings, cards_data,
                                       interpretations_data, service, answer)
    IN [pass EXCEPT !.stdout = read \o pass.stdout]

InitCLI ==
    /\ embeddings_data = <<>>
    /\ pc = "start"
    /\ call = NoCall
    /\ outcome = NoOutcome
    /\ embedding_calls = 0
    /\ scanned = 0
    /\ vec1 = NoVector
    /\ vec2 = NoVector
    /\ similarity = Zero
    /\ stdout = <<>>
    /\ stderr = <<>>
    /\ exit_code = NotExited
    /\ args \in CommandLines
    /\ environ \in Environments
    /\ query_calls = 0
    /\ turns = 0
    /\ last_input = <<>>
    /\ NotRunning

\* a call counts when search_cards or find_similar_cards was entered
Calls(made) == IF made.op = "none" THEN 0 ELSE 1

\* the script run as a program: main from its first line to its return or
\* exit, or to the first prompt of interactive mode
Main ==
    /\ pc = "start"
    /\ IF args.interactive \/ (~Given(args.query) /\ ~Given(args.similar))
       THEN LET started == interactive_search(environ)
            IN /\ stdout' = stdout \o started.stdout
               /\ pc' = started.at
               /\ exit_code' = IF started.at = "done" THEN 0 ELSE NotExited
               /\ embeddings_data' = started.loaded
               /\ UNCHANGED <<stderr, call, outcome, embedding_calls, query_calls>>
       ELSE \E service \in {"answers", Failure} :
            \E answer \in (IF service = Failure THEN {NoVector} ELSE QueryVectors) :
               LET done == main(args, environ, service, answer)
               IN /\ stdout' = stdout \o done.stdout
                  /\ stderr' = stderr \o done.stderr
                  /\ exit_code' = done.exit
                  /\ pc' = "done"
                  /\ embeddings_data' = done.loaded
                  /\ call' = done.call
                  /\ outcome' = done.outcome
                  /\ embedding_calls' = embedding_calls + done.embedding_calls
                  /\ query_calls' = query_calls + Calls(done.call)
    /\ UNCHANGED <<scanned, vec1, vec2, similarity, args, environ, turns, last_input, log, tarot>>

\* the loop of interactive_search reads one line and handles it
InteractiveTurn ==
    /\ pc = "prompt"
    /\ turns < MaxTurns
    /\ \E line \in InputLines, pos_input \in PositionInputs,
          service \in {"answers", Failure} :
       \E answer \in (IF service = Failure THEN {NoVector} ELSE QueryVectors) :
          LET pass == interactive_turn(line, pos_input, embeddings_data, load_cards,
                                       load_interpretations, service, answer)
          IN /\ stdout' = stdout \o pass.stdout
             /\ pc' = IF pass.break THEN "done" ELSE "prompt"
             /\ exit_code' = IF pass.break THEN 0 ELSE NotExited
             /\ call' = pass.call
             /\ outcome' = pass.outcome
             /\ embedding_calls' = embedding_calls + pass.embedding_calls
             /\ query_calls' = query_calls + Calls(pass.call)
             /\ last_input' = line
    /\ turns' = turns + 1
    /\ UNCHANGED <<embeddings_data, scanned, vec1, vec2, similarity, stderr, args,
                   environ, log, tarot>>

NextCLI == Main \/ InteractiveTurn

SpecCLI == InitCLI /\ [][NextCLI]_vars

----------------------------------------------------------------------------
(* A session: several queries on the one list load_embeddings returned, as   *)
(* the loop of interactive_search makes them and as a program that imports   *)
(* the module can                                                            *)

\* most queries of a session
MaxCalls == 3

Record(card_name, position, interpretation_system, embedding) ==
    [card_name |-> card_name, position |-> position,
     interpretation_system |-> interpretation_system, embedding |-> embedding]

\* the lists a session runs on: one with two records of one similarity to
\* <<1, 0>>, one of the older format, one with two systems, and the empty one
SessionStores ==
    { <<Record("The Fool", "upright", "combined", <<1, 0>>),
        Record("The Fool", "reversed", "combined", <<1, 1>>),
        Record("The Magician", "upright", "combined", <<1, 1>>)>>,
      <<Record("The Magician", "reversed", Absent, <<1, 1>>),
        Record("The Fool", "upright", Absent, <<1, 0>>)>>,
      <<Record("The Fool", "upright", "rws_traditional", <<1, 0>>),
        Record("The Magician", "upright", "combined", <<1, 0>>),
        Record("The Magician", "reversed", "combined", <<1, 1>>)>>,
      <<>> }

\* the texts asked in a session
Queries == {"new beginnings", "letting go"}

\* what client.embeddings.create does with a text: it answers with a vector
\* or it fails.  The client is an argument of search_cards, and what it does
\* with one text is the same throughout a session
Answers ==
    [service : {"answers"}, answer : {<<1, 0>>, <<-1, 1>>}]
        \cup [service : {Failure}, answer : {NoVector}]
EmbeddingServices == [Queries -> Answers]

\* top_k as a session passes it: 1, and the default of both functions
SessionTopKs == {1, 5}

\* mutant: the ranking is built in the list it was given, which loses a record
\* to the slice
AfterQuery_Consumed(data) == IF data = <<>> THEN data ELSE Tail(data)

\* the list a query was given, once the query is over: both functions read
\* the records with .get and [...], append to their own list similarities,
\* sort that list and slice it; no statement assigns to embeddings_data, to
\* one of its records or to a module global
AfterQuery(data) == data

InitSession ==
    /\ embeddings_data \in SessionStores
    /\ pc = "session"
    /\ call = NoCall
    /\ outcome = NoOutcome
    /\ embedding_calls = 0
    /\ scanned = 0
    /\ vec1 = NoVector
    /\ vec2 = NoVector
    /\ similarity = Zero
    /\ stdout = <<>>
    /\ stderr = <<>>
    /\ exit_code = NotExited
    /\ args = NoArgs
    /\ \E service \in EmbeddingServices :
          environ = [kind |-> "session", cache |-> embeddings_data, service |-> service]
    /\ query_calls = 0
    /\ turns = 0
    /\ last_input = <<>>
    /\ NotRunning

\* one more search_cards(query, embeddings_data, client, top_k) of the session
SessionSearch ==
    /\ pc = "session"
    /\ Len(log) < MaxCalls
    /\ \E query \in Queries, top_k \in SessionTopKs :
          LET made == [op |-> "search_cards", query |-> query, top_k |-> top_k,
                       position_filter |-> None, system_filter |-> None]
              heard == environ.service[query]
              done == search_cards_call(heard.service, heard.answer, embeddings_data,
                                        top_k, None, None)
          IN /\ call' = made
             /\ outcome' = done.outcome
             /\ embedding_calls' = embedding_calls + done.embedding_calls
             /\ scanned' = done.scanned
             /\ log' = Append(log, [call |-> made, outcome |-> done.outcome])
    /\ embeddings_data' = AfterQuery(embeddings_data)
    /\ query_calls' = query_calls + 1
    /\ UNCHANGED <<pc, vec1, vec2, similarity, io, args, environ, turns, last_input, tarot>>

\* one more find_similar_cards(card_name, position, embeddings_data,
\* exclude_same_card=False) of the session
SessionSimilar ==
    /\ pc = "session"
    /\ Len(log) < MaxCalls
    /\ \E card_name \in CardNames, position \in Positions :
          LET made == [op |-> "find_similar_cards", card_name |-> card_name,
                       position |-> position, top_k |-> 5, exclude_self |-> TRUE,
                       exclude_same_card |-> FALSE, system_filter |-> None]
              done == find_similar_cards(card_name, position, embeddings_data, 5,
                                         TRUE, FALSE, None)
          IN /\ call' = made
             /\ outcome' = done
             /\ scanned' = IF done.kind = "raise" THEN 0 ELSE Len(embeddings_data)
             /\ log' = Append(log, [call |-> made, outcome |-> done])
    /\ embeddings_data' = AfterQuery(embeddings_data)
    /\ query_calls' = query_calls + 1
    /\ UNCHANGED <<pc, embedding_calls, vec1, vec2, similarity, io, args, environ, turns,
                   last_input, tarot>>

NextSession == SessionSearch \/ SessionSimilar

SpecSession == InitSession /\ [][NextSession]_vars

----------------------------------------------------------------------------
(* generate_embeddings.py: the loop that builds the store *)

\* most embedding calls that fail in one generation
MaxFailures == 2

\* cards, as load_data gives them: card lists whose names are unique
GenerateCardLists ==
    {<<>>, <<TheFool>>, <<TheMagician>>, <<TheFool, TheMagician>>,
     <<TheMagician, TheFool>>}

\* for position in ['upright', 'reversed']
GeneratePositions == <<"upright", "reversed">>

\* systems = [...]: the four systems and 'combined', in the order of the loop
systems ==
    <<"rws_traditional", "thoth_crowley", "jungian_psychological", "modern_intuitive",
      "combined">>

\* INTERPRETATION_SYSTEMS of generate_embeddings.py: the label of each system
SystemLabels ==
    [system \in {"rws_traditional", "thoth_crowley", "jungian_psychological",
                 "modern_intuitive", "combined"} |->
        CASE system = "rws_traditional" -> "Rider-Waite-Smith (Traditional)"
          [] system = "thoth_crowley" -> "Thoth/Crowley (Esoteric)"
          [] system = "jungian_psychological" -> "Jungian/Psychological (Archetypes)"
          [] system = "modern_intuitive" -> "Modern/Intuitive (Contemporary)"
          [] OTHER -> "All Systems Combined"]

\* create_card_text_for_system(card, interpretations, position, system_key):
\* a text made of the name of the card, the position and the texts of the
\* system (of all systems for None); kept as what it is the text of
CardText(card, position, system_key) ==
    [of |-> <<card.name, position, system_key>>]

\* response.data[0].embedding for a text, when the call succeeds
Embed(text) == IF text.of[2] = "upright" THEN <<1, 0>> ELSE <<1, 1>>

\* mutant: the handler of a failed call starts the list again
AfterCall_FailureClears(data, record, service) ==
    IF service = Failure THEN <<>> ELSE Append(data, record)

\* the try of the loop body: the record is appended when the call succeeded;
\* when it raised, the except prints and the list is as it was
AfterCall(data, record, service) ==
    IF service = Failure THEN data ELSE Append(data, record)

\* how many calls of the log failed
Failures(calls) == Cardinality({i \in DOMAIN calls : calls[i].outcome = Failure})

InitGenerate ==
    /\ embeddings_data = <<>>
    /\ pc = "generating"
    /\ call = NoCall
    /\ outcome = NoOutcome
    /\ embedding_calls = 0
    /\ scanned = 0
    /\ vec1 = NoVector
    /\ vec2 = NoVector
    /\ similarity = Zero
    /\ stdout = <<>>
    /\ stderr = <<>>
    /\ exit_code = NotExited
    /\ args = NoArgs
    /\ \E cards \in GenerateCardLists : environ = [kind |-> "generate", cards |-> cards]
    /\ query_calls = 0
    /\ turns = 0
    /\ last_input = <<>>
    /\ NotRunning

\* one pass of the innermost loop of generate_embeddings: the triple is the
\* next one of the three nested loops, the call answers or fails
GenerateCall ==
    /\ pc = "generating"
    /\ embedding_calls < Len(environ.cards) * Len(GeneratePositions) * Len(systems)
    /\ LET per_card == Len(GeneratePositions) * Len(systems)
           card == environ.cards[(embedding_calls \div per_card) + 1]
           position == GeneratePositions[((embedding_calls % per_card) \div Len(systems)) + 1]
           system == systems[(embedding_calls % Len(systems)) + 1]
           system_key == IF system = "combined" THEN None ELSE system
           text == CardText(card, position, system_key)
           record == [card_name |-> card.name, position |-> position,
                      interpretation_system |-> system, text |-> text,
                      embedding |-> Embed(text)]
       IN \E service \in {"answers", Failure} :
             /\ service = Failure => Failures(log) < MaxFailures
             /\ embeddings_data' = AfterCall(embeddings_data, record, service)
             /\ stdout' = stdout
                   \o (IF embedding_calls % per_card = 0
                       THEN <<<<[t |-> "Processing:", card_name |-> card.name]>>>>
                       ELSE <<>>)
                   \o <<<<[t |-> "Generating", position |-> position,
                           label |-> SystemLabels[system]]>>>>
                   \o (IF service = Failure
                       THEN <<<<[t |-> "ballot x"],
                                [t |-> "Error generating", position |-> position,
                                 system |-> system]>>>>
                       ELSE <<>>)
             /\ log' = Append(log, [call |-> <<card.name, position, system>>,
                                    outcome |-> service])
    /\ embedding_calls' = embedding_calls + 1
    /\ UNCHANGED <<pc, call, outcome, scanned, vec1, vec2, similarity, stderr, exit_code,
                   cli, tarot>>

\* return embeddings_data, once the loops are over
GenerateReturn ==
    /\ pc = "generating"
    /\ embedding_calls = Len(environ.cards) * Len(GeneratePositions) * Len(systems)
    /\ pc' = "generated"
    /\ call' = [op |-> "generate_embeddings"]
    /\ outcome' = Returned(embeddings_data)
    /\ UNCHANGED <<embeddings_data, embedding_calls, scanned, vec1, vec2, similarity, io,
                   cli, log, tarot>>

NextGenerate == GenerateCall \/ GenerateReturn

SpecGenerate == InitGenerate /\ [][NextGenerate]_vars

----------------------------------------------------------------------------
(* tarot.py: the menu loop, the daily card, the interpretation mode and the   *)
(* reading history.  What a function prints under one heading is kept as one  *)
(* element of stdout.                                                         *)

\* most passes of the menu loop
MaxPasses == 2
\* last day of a run, the first being day 1
MaxDays == 2

\* cards.json as tarot.py loads it
tarot_deck == <<TheFool, TheMagician>>

\* the dict INTERPRETATION_SYSTEMS, as its items in order
INTERPRETATION_SYSTEMS ==
    << <<"rws_traditional", "Rider-Waite-Smith (Traditional)">>,
       <<"thoth_crowley", "Thoth/Crowley (Esoteric)">>,
       <<"jungian_psychological", "Jungian/Psychological (Archetypes)">>,
       <<"modern_intuitive", "Modern/Intuitive (Contemporary)">> >>

\* INTERPRETATION_SYSTEMS[key]
SystemName(key) ==
    INTERPRETATION_SYSTEMS[CHOOSE k \in DOMAIN INTERPRETATION_SYSTEMS :
                              INTERPRETATION_SYSTEMS[k][1] = key][2]

\* a file that holds something json.load does not accept
UnreadableFile == [state |-> "unreadable"]
\* daily_card.json as daily_card writes it
DailyData(date, card_name, is_reversed) ==
    [state |-> "json", date |-> date, card_name |-> card_name, is_reversed |-> is_reversed]
\* reading_history.json as save_reading writes it: a list of readings
History(entries) == [state |-> "json", entries |-> entries]

\* what draw_card can return: random.choice of the deck, random.choice of the
\* orientation
DrawOutcomes == {<<tarot_deck[k], is_reversed>> : k \in DOMAIN tarot_deck, is_reversed \in BOOLEAN}

\* display_card(card, is_reversed): the card, its position and meaning, its
\* drawing, and the interpretation of the current mode
display_card(card, is_reversed, mode) ==
    <<[t |-> "Card:", card_name |-> card.name, is_reversed |-> is_reversed,
       meaning |-> IF is_reversed THEN card.rdesc ELSE card.desc,
       art |-> IF is_reversed THEN card.reversed ELSE card.card,
       interpretation |-> SystemName(mode)]>>

\* display_menu(), which shows the current interpretation
display_menu(mode) == <<[t |-> "menu", current |-> SystemName(mode)]>>

\* single_card_reading(), given what draw_card returned
single_card_reading(drawn, mode) ==
    [stdout |-> <<Line("SINGLE CARD READING"), display_card(drawn[1], drawn[2], mode)>>,
     reading_data |-> [spread |-> "single", cards |-> <<<<drawn[1].name, drawn[2]>>>>]]

\* yes_no_reading(), given what draw_card returned
yes_no_reading(drawn, mode) ==
    LET answer == IF drawn[2] THEN "NO" ELSE "YES"
    IN [stdout |-> <<Line("YES/NO READING"), <<[t |-> "Answer:", answer |-> answer]>>,
                     display_card(drawn[1], drawn[2], mode)>>,
        reading_data |-> [spread |-> "yes_no", cards |-> <<<<drawn[1].name, drawn[2]>>>>,
                          answer |-> answer]]

\* mutant: the history is started again at every save
save_reading_StartsAgain(reading_data, file, now) ==
    IF file.state = "unreadable"
    THEN [file |-> file, stdout |-> <<<<[t |-> "ballot x"], [t |-> "Error saving reading"]>>>>]
    ELSE [file |-> History(<<[timestamp |-> now] @@ reading_data>>),
          stdout |-> <<Line("Reading saved to history!")>>]

\* save_reading(reading_data): the timestamp is set, the history is read (the
\* empty list when there is no file), the reading appended and the list
\* written; whatever is raised on the way is printed
save_reading(reading_data, file, now) ==
    IF file.state = "unreadable"
    THEN [file |-> file, stdout |-> <<<<[t |-> "ballot x"], [t |-> "Error saving reading"]>>>>]
    ELSE LET history == IF file.state = "missing" THEN <<>> ELSE file.entries
         IN [file |-> History(Append(history, [timestamp |-> now] @@ reading_data)),
             stdout |-> <<Line("Reading saved to history!")>>]

\* for card in tarot_deck: if card['name'] == name: the index of the first
\* such card, 0 if there is none
InDeck(name) ==
    LET found == {k \in DOMAIN tarot_deck : tarot_deck[k].name = name}
    IN IF found = {} THEN 0 ELSE CHOOSE k \in found : \A j \in found : k <= j

\* mutant: the date of the file is not looked at, a card is drawn every time
daily_card_AlwaysDraws(file, now, drawn, mode) ==
    [file |-> DailyData(now, drawn[1].name, drawn[2]),
     stdout |-> <<<<[t |-> "CARD OF THE DAY", date |-> now]>>,
                  display_card(drawn[1], drawn[2], mode)>>,
     draws |-> 1]

\* daily_card(), given the file, the date and what draw_card returns if called
daily_card(file, now, drawn, mode) ==
    LET header == <<[t |-> "CARD OF THE DAY", date |-> now]>>
        fresh == [file |-> DailyData(now, drawn[1].name, drawn[2]),
                  stdout |-> <<header, display_card(drawn[1], drawn[2], mode)>>,
                  draws |-> 1]
    IN IF file.state = "missing" THEN fresh
       ELSE IF file.state = "unreadable" THEN fresh
       ELSE IF file.date = now
       THEN IF InDeck(file.card_name) # 0
            THEN [file |-> file,
                  stdout |-> <<header, display_card(tarot_deck[InDeck(file.card_name)],
                                                    file.is_reversed, mode)>>,
                  draws |-> 0]
            ELSE [fresh EXCEPT !.stdout = <<header>> \o fresh.stdout]
       ELSE fresh

\* lines typed at "Enter your choice (or press Enter to keep current): ":
\* numbers in and out of range, the empty line, a word, and the one
\* character SUPERSCRIPT TWO, written here by its code point
ModeInputs == {"1", "3", "5", "0", "", "x", "U+00B2"}

\* str.isdigit() and int() on these lines: the superscript is a digit to
\* isdigit, and int raises ValueError on it
isdigit(s) == s \in {"0", "1", "2", "3", "4", "5", "U+00B2"}
IntRaises(s) == s = "U+00B2"
int(s) ==
    CASE s = "0" -> 0 [] s = "1" -> 1 [] s = "2" -> 2
      [] s = "3" -> 3 [] s = "4" -> 4 [] s = "5" -> 5

\* mutant: the 1 is not subtracted from the number typed
change_interpretation_mode_NotShifted(mode, choice) ==
    LET modes == INTERPRETATION_SYSTEMS
        banner == <<[t |-> "SELECT INTERPRETATION SYSTEM", marked |-> mode]>>
    IN IF isdigit(choice)
       THEN IF IntRaises(choice)
            THEN [mode |-> mode, stdout |-> <<banner>>, raised |-> TRUE]
            ELSE LET idx == int(choice)
                 IN IF 0 <= idx /\ idx < Len(modes)
                    THEN [mode |-> modes[idx + 1][1],
                          stdout |-> <<banner, <<[t |-> "mode changed",
                                                  to |-> SystemName(modes[idx + 1][1])]>>>>,
                          raised |-> FALSE]
                    ELSE [mode |-> mode,
                          stdout |-> <<banner, <<[t |-> "ballot x"],
                                                 [t |-> "text", s |-> " Invalid choice."]>>>>,
                          raised |-> FALSE]
       ELSE [mode |-> mode,
             stdout |-> <<banner, <<[t |-> "keeping", current |-> SystemName(mode)]>>>>,
             raised |-> FALSE]

\* change_interpretation_mode(), given the line typed: the new value of the
\* global, the prints, and whether int raised
change_interpretation_mode(mode, choice) ==
    LET modes == INTERPRETATION_SYSTEMS
        banner == <<[t |-> "SELECT INTERPRETATION SYSTEM", marked |-> mode]>>
    IN IF isdigit(choice)
       THEN IF IntRaises(choice)
            THEN [mode |-> mode, stdout |-> <<banner>>, raised |-> TRUE]
            ELSE LET idx == int(choice) - 1
                 IN IF 0 <= idx /\ idx < Len(modes)
                    THEN [mode |-> modes[idx + 1][1],
                          stdout |-> <<banner, <<[t |-> "mode changed",
                                                  to |-> SystemName(modes[idx + 1][1])]>>>>,
                          raised |-> FALSE]
                    ELSE [mode |-> mode,
                          stdout |-> <<banner, <<[t |-> "ballot x"],
                                                 [t |-> "text", s |-> " Invalid choice."]>>>>,
                          raised |-> FALSE]
       ELSE [mode |-> mode,
             stdout |-> <<banner, <<[t |-> "keeping", current |-> SystemName(mode)]>>>>,
             raised |-> FALSE]

\* answers typed at "Save this reading to history? (y/n): "
SaveInputs == {"y", "Y", "n"}

\* input("\nPress Enter to continue...")
PressEnter == Prompt("\nPress Enter to continue...")

\* the files a run can find: none, one that json.load rejects, and one an
\* earlier run wrote (a card for day 0, or for day 1; one reading of day 0)
DailyFiles ==
    {MissingFile, UnreadableFile, DailyData(0, "The Fool", FALSE),
     DailyData(1, "The Magician", TRUE)}
HistoryFiles ==
    {MissingFile, UnreadableFile,
     History(<<[timestamp |-> 0, spread |-> "single",
                cards |-> <<<<"The Magician", TRUE>>>>]>>)}

InitTarot ==
    /\ embeddings_data = <<>>
    /\ pc = "menu"
    /\ call = NoCall
    /\ outcome = NoOutcome
    /\ embedding_calls = 0
    /\ scanned = 0
    /\ vec1 = NoVector
    /\ vec2 = NoVector
    /\ similarity = Zero
    /\ stdout = <<>>
    /\ stderr = <<>>
    /\ exit_code = NotExited
    /\ args = NoArgs
    /\ environ = NoEnviron
    /\ query_calls = 0
    /\ turns = 0
    /\ last_input = <<>>
    /\ log = <<>>
    /\ current_interpretation_mode = "rws_traditional"
    /\ history_file \in HistoryFiles
    /\ daily_file \in DailyFiles
    /\ today = 1
    /\ draws = 0

\* what a pass of the loop of main leaves alone whatever the choice
OutsideTarot ==
    UNCHANGED <<embeddings_data, embedding_calls, scanned, vec1, vec2, similarity,
                stderr, exit_code, args, environ, query_calls, log, today>>

\* choice '0': the loop is left
Exit ==
    /\ pc = "menu"
    /\ turns < MaxPasses
    /\ stdout' = stdout \o <<display_menu(current_interpretation_mode),
                             Line("\nThank you for using ASCII Tarot Reader!\n")>>
    /\ pc' = "done"
    /\ call' = [op |-> "exit"]
    /\ outcome' = Returned(<<>>)
    /\ last_input' = <<"0">>
    /\ turns' = turns + 1
    /\ OutsideTarot
    /\ UNCHANGED <<current_interpretation_mode, history_file, daily_file, draws>>

\* choices '1' and '5': a reading of one card, then the question whether to
\* save it, then "Press Enter"
Reading ==
    /\ pc = "menu"
    /\ turns < MaxPasses
    /\ \E choice \in {"1", "5"}, drawn \in DrawOutcomes, save \in SaveInputs :
          LET read == IF choice = "1"
                      THEN single_card_reading(drawn, current_interpretation_mode)
                      ELSE yes_no_reading(drawn, current_interpretation_mode)
              saved == IF lower(save) = "y"
                       THEN save_reading(read.reading_data, history_file, today)
                       ELSE [file |-> history_file, stdout |-> <<>>]
          IN /\ stdout' = stdout \o <<display_menu(current_interpretation_mode)>>
                             \o read.stdout
                             \o <<Prompt("\nSave this reading to history? (y/n): ")>>
                             \o saved.stdout \o <<PressEnter>>
             /\ history_file' = saved.file
             /\ call' = [op |-> IF choice = "1" THEN "single_card_reading"
                                ELSE "yes_no_reading"]
             /\ outcome' = Returned(read.reading_data)
             /\ last_input' = <<choice, save>>
    /\ draws' = draws + 1
    /\ turns' = turns + 1
    /\ OutsideTarot
    /\ UNCHANGED <<pc, current_interpretation_mode, daily_file>>

\* choice '7': daily_card(), then "Press Enter"
DailyCard ==
    /\ pc = "menu"
    /\ turns < MaxPasses
    /\ \E drawn \in DrawOutcomes :
          LET done == daily_card(daily_file, today, drawn, current_interpretation_mode)
          IN /\ stdout' = stdout \o <<display_menu(current_interpretation_mode)>>
                             \o done.stdout \o <<PressEnter>>
             /\ daily_file' = done.file
             /\ draws' = draws + done.draws
    /\ call' = [op |-> "daily_card"]
    /\ outcome' = Returned(<<>>)
    /\ last_input' = <<"7">>
    /\ turns' = turns + 1
    /\ OutsideTarot
    /\ UNCHANGED <<pc, current_interpretation_mode, history_file>>

\* choice '14': change_interpretation_mode(); what int raises is caught by
\* the except Exception of main, which prints it and asks for Enter
ChangeInterpretationMode ==
    /\ pc = "menu"
    /\ turns < MaxPasses
    /\ \E choice \in ModeInputs :
          LET done == change_interpretation_mode(current_interpretation_mode, choice)
          IN /\ current_interpretation_mode' = done.mode
             /\ stdout' = stdout \o <<display_menu(current_interpretation_mode)>>
                             \o done.stdout
                             \o (IF done.raised
                                 THEN <<<<[t |-> "ballot x"], [t |-> "An error occurred"]>>>>
                                 ELSE <<>>)
                             \o <<PressEnter>>
             /\ outcome' = IF done.raised THEN Raised("ValueError") ELSE Returned(<<>>)
             /\ last_input' = <<"14", choice>>
    /\ call' = [op |-> "change_interpretation_mode"]
    /\ turns' = turns + 1
    /\ OutsideTarot
    /\ UNCHANGED <<pc, history_file, daily_file, draws>>

\* choice '10': list_all_cards(), one of the choices that only print
ListAllCards ==
    /\ pc = "menu"
    /\ turns < MaxPasses
    /\ stdout' = stdout \o <<display_menu(current_interpretation_mode),
                             <<[t |-> "ALL TAROT CARDS", total |-> Len(tarot_deck)]>>,
                             PressEnter>>
    /\ call' = [op |-> "list_all_cards"]
    /\ outcome' = Returned(<<>>)
    /\ last_input' = <<"10">>
    /\ turns' = turns + 1
    /\ OutsideTarot
    /\ UNCHANGED <<pc, current_interpretation_mode, history_file, daily_file, draws>>

\* any other line: "Invalid choice" and the loop continues at once
InvalidChoice ==
    /\ pc = "menu"
    /\ turns < MaxPasses
    /\ stdout' = stdout \o <<display_menu(current_interpretation_mode),
                             <<[t |-> "ballot x"],
                               [t |-> "text", s |-> " Invalid choice. Please try again."]>>>>
    /\ call' = NoCall
    /\ outcome' = NoOutcome
    /\ last_input' = <<"99">>
    /\ turns' = turns + 1
    /\ OutsideTarot
    /\ UNCHANGED <<pc, current_interpretation_mode, history_file, daily_file, draws>>

\* the date changes while the program waits at its menu
Midnight ==
    /\ pc = "menu"
    /\ today < MaxDays
    /\ today' = today + 1
    /\ UNCHANGED <<embeddings_data, pc, call, outcome, embedding_calls, scanned, vec1,
                   vec2, similarity, io, cli, log, current_interpretation_mode,
                   history_file, daily_file, draws>>

NextTarot ==
    \/ Exit
    \/ Reading
    \/ DailyCard
    \/ ChangeInterpretationMode
    \/ ListAllCards
    \/ InvalidChoice
    \/ Midnight

SpecTarot == InitTarot /\ [][NextTarot]_vars

----------------------------------------------------------------------------
(* What the claims are stated with.  These definitions restate the contract  *)
(* of section 4.2; they use none of the scan, sort or slice operators above. *)

IsSearch == pc = "done" /\ call.op = "search_cards"
IsSimilar == pc = "done" /\ call.op = "find_similar_cards"
HasReturned == outcome.kind = "return"
Result == outcome.value

\* the system a record counts for, and the system a query asks for
SystemOf(r) ==
    IF r.interpretation_system = Absent THEN "combined" ELSE r.interpretation_system
AskedSystem == IF call.system_filter = None THEN "combined" ELSE call.system_filter

\* indices of the records of the asked system
InAskedSystem == {i \in 1..Len(embeddings_data) : SystemOf(embeddings_data[i]) = AskedSystem}

\* a >= b and Min on what is compared
ScoreGeq(a, b) == a.s * a.n * b.d >= b.s * b.n * a.d
Min(a, b) == IF a < b THEN a ELSE b

\* the record a find_similar_cards query is about: the first one that matches
TargetIndices ==
    {i \in InAskedSystem : /\ embeddings_data[i].card_name = call.card_name
                           /\ embeddings_data[i].position = call.position}
FirstTarget == CHOOSE i \in TargetIndices : \A j \in TargetIndices : i <= j

\* the vector a query ranks against
RankedAgainst ==
    IF call.op = "search_cards" THEN call.query_embedding
    ELSE embeddings_data[FirstTarget].embedding

\* indices of the records that survive the filters and exclusions of the query
Survivors ==
    IF call.op = "search_cards"
    THEN {i \in InAskedSystem :
            call.position_filter = None \/ embeddings_data[i].position = call.position_filter}
    ELSE {i \in InAskedSystem :
            IF call.exclude_same_card
            THEN embeddings_data[i].card_name # call.card_name
            ELSE ~ /\ call.exclude_self
                   /\ embeddings_data[i].card_name = call.card_name
                   /\ embeddings_data[i].position = call.position}

\* how many entries of a list are the pair (name, position)
CountIn(list, name, position) ==
    Cardinality({k \in 1..Len(list) : list[k][1] = name /\ list[k][2] = position})
CountAmong(indices, name, position) ==
    Cardinality({i \in indices : /\ embeddings_data[i].card_name = name
                                 /\ embeddings_data[i].position = position})

\* C1: the similarity scores of a returned list never increase along the list,
\* for search_cards and for find_similar_cards
C1_ScoresNonIncreasing ==
    (pc = "done" /\ HasReturned) =>
        \A i, j \in 1..Len(Result) : i < j => ScoreGeq(Result[i][3], Result[j][3])

\* a returned list of two entries whose scores differ
C1_Witness ==
    /\ IsSimilar /\ HasReturned
    /\ Len(Result) = 2
    /\ Result[1][3] # Result[2][3]

\* C2: with exclude_same_card, find_similar_cards returns no triple that carries
\* the queried card_name, in either position
C2_SameCardNeverReturned ==
    (IsSimilar /\ HasReturned /\ call.exclude_same_card) =>
        \A k \in 1..Len(Result) : Result[k][1] # call.card_name

\* the asked system stores the queried card in the other position too, and
\* exclude_self, which is true, would have left that record in
C2_Witness ==
    /\ IsSimilar /\ HasReturned /\ call.exclude_same_card /\ call.exclude_self
    /\ \E i \in InAskedSystem : /\ embeddings_data[i].card_name = call.card_name
                                /\ embeddings_data[i].position # call.position

\* C3: with exclude_same_card = false and exclude_self = true, only the records
\* of the queried (card_name, position) are removed from the candidates of the
\* asked system: that pair is never returned, and when top_k does not truncate
\* every other pair is returned as often as the asked system stores it
C3_OnlyExactPairExcluded ==
    (IsSimilar /\ HasReturned /\ ~call.exclude_same_card /\ call.exclude_self) =>
        /\ CountIn(Result, call.card_name, call.position) = 0
        /\ call.top_k >= Len(embeddings_data) =>
              \A name \in CardNames, position \in Positions :
                  (name # call.card_name \/ position # call.position) =>
                      CountIn(Result, name, position)
                          = CountAmong(InAskedSystem, name, position)

\* the queried card's other position is returned
C3_Witness ==
    /\ IsSimilar /\ HasReturned /\ ~call.exclude_same_card /\ call.exclude_self
    /\ \E k \in 1..Len(Result) :
          Result[k][1] = call.card_name /\ Result[k][2] # call.position

\* C4: exclude_same_card takes precedence over exclude_self: when it is true the
\* query gives what the same query with exclude_self negated gives, and no
\* record of the queried card, in either position, is returned
C4_SameCardTakesPrecedence ==
    (IsSimilar /\ call.exclude_same_card) =>
        /\ outcome = find_similar_cards(call.card_name, call.position, embeddings_data,
                                        call.top_k, ~call.exclude_self, TRUE,
                                        call.system_filter)
        /\ HasReturned =>
              \A position \in Positions : CountIn(Result, call.card_name, position) = 0

\* exclude_same_card with exclude_self = false, on a store that holds the
\* queried card in both positions
C4_Witness ==
    /\ IsSimilar /\ HasReturned /\ call.exclude_same_card /\ ~call.exclude_self
    /\ \A position \in Positions :
          CountAmong(InAskedSystem, call.card_name, position) > 0

\* C5: find_similar_cards raises ValueError, and returns nothing, exactly when no
\* record has the queried card_name and position and counts for the asked system
C5_CardNotFoundExactly ==
    IsSimilar =>
        /\ outcome.kind \in {"return", "raise"}
        /\ (outcome.kind = "raise") <=> (TargetIndices = {})
        /\ outcome.kind = "raise" => outcome.value = "ValueError"

\* the error is raised for a card the store holds in another system or position
C5_Witness ==
    /\ IsSimilar /\ outcome.kind = "raise"
    /\ \E i \in 1..Len(embeddings_data) :
          embeddings_data[i].card_name = call.card_name

\* the whole ranking of the query that ran: the same query with top_k as large
\* as the store
FullRanking ==
    IF call.op = "search_cards"
    THEN search_cards(call.query_embedding, embeddings_data, Len(embeddings_data),
                      call.position_filter, call.system_filter)
    ELSE find_similar_cards(call.card_name, call.position, embeddings_data,
                            Len(embeddings_data), call.exclude_self,
                            call.exclude_same_card, call.system_filter).value

\* C6: for top_k >= 1 a query returns min(top_k, n) triples, n the number of
\* records that survive its filters and exclusions, and they are the first
\* min(top_k, n) entries of the whole ranking
C6_ExactlyMinKN ==
    (pc = "done" /\ HasReturned /\ call.top_k >= 1) =>
        /\ Len(Result) = Min(call.top_k, Cardinality(Survivors))
        /\ Len(FullRanking) = Cardinality(Survivors)
        /\ Result = SubSeq(FullRanking, 1, Min(call.top_k, Cardinality(Survivors)))

\* a query that cuts the ranking short
C6_Witness ==
    /\ IsSearch /\ HasReturned
    /\ call.top_k = 1
    /\ Cardinality(Survivors) = 2
    /\ Len(Result) = 1

\* a query asked for more than there is
C6_WitnessAll ==
    /\ IsSimilar /\ HasReturned
    /\ call.top_k = 2
    /\ Cardinality(Survivors) = 1
    /\ Len(Result) = 1

\* C7: every returned triple comes from a record of the asked system (a record
\* without the field counts as 'combined', no system_filter asks for
\* 'combined'); without position filter and exclusions every record of the
\* asked system is a candidate, so a default query on a store without system
\* fields sees every record
C7_OnlyAskedSystem ==
    (pc = "done" /\ HasReturned) =>
        /\ \A k \in 1..Len(Result) :
              \E i \in InAskedSystem :
                  /\ embeddings_data[i].card_name = Result[k][1]
                  /\ embeddings_data[i].position = Result[k][2]
                  /\ cosine_similarity(RankedAgainst, embeddings_data[i].embedding)
                        = Result[k][3]
        /\ \A name \in CardNames, position \in Positions :
              CountIn(Result, name, position) <= CountAmong(InAskedSystem, name, position)
        /\ ( /\ call.top_k >= Len(embeddings_data)
             /\ call.op = "search_cards" => call.position_filter = None
             /\ call.op = "find_similar_cards" =>
                    ~call.exclude_self /\ ~call.exclude_same_card )
           => Len(Result) = Cardinality(InAskedSystem)

\* a default query on a store of two records without system fields returns both
C7_Witness ==
    /\ IsSearch /\ HasReturned
    /\ call.system_filter = None /\ call.position_filter = None
    /\ Len(embeddings_data) = 2
    /\ \A i \in 1..2 : embeddings_data[i].interpretation_system = Absent
    /\ Len(Result) = 2

\* a query leaves out a record of another system
C7_WitnessOtherSystem ==
    /\ IsSearch /\ HasReturned
    /\ call.position_filter = None /\ call.top_k = 2
    /\ Len(embeddings_data) = 2
    /\ Len(Result) = 1

\* the triples of the surviving records, in collection order
RECURSIVE TriplesFrom(_)
TriplesFrom(i) ==
    IF i > Len(embeddings_data) THEN <<>>
    ELSE (IF i \in Survivors
          THEN << <<embeddings_data[i].card_name, embeddings_data[i].position,
                    cosine_similarity(RankedAgainst, embeddings_data[i].embedding)>> >>
          ELSE <<>>) \o TriplesFrom(i + 1)

WithScore(list, score) == SelectSeq(list, LAMBDA t : t[3] = score)
IsPrefix(a, b) == Len(a) <= Len(b) /\ a = SubSeq(b, 1, Len(a))

\* C8: triples of equal similarity are returned in collection order: for each
\* score, the returned triples of that score are the first ones, in collection
\* order, of the surviving records of that score
C8_TiesInCollectionOrder ==
    (pc = "done" /\ HasReturned) =>
        \A k \in 1..Len(Result) :
            IsPrefix(WithScore(Result, Result[k][3]), WithScore(TriplesFrom(1), Result[k][3]))

\* two different triples of one score are returned
C8_Witness ==
    /\ IsSimilar /\ HasReturned
    /\ Len(Result) = 2
    /\ Result[1][3] = Result[2][3]
    /\ <<Result[1][1], Result[1][2]>> # <<Result[2][1], Result[2][2]>>

IsZeroVector(vec) == \A i \in 1..Len(vec) : vec[i] = 0

\* C9: cosine_similarity returns 0.0 (and so neither fails nor gives NaN)
\* whenever one of two vectors of one length has zero norm, also when both have
C9_ZeroNormGivesZero ==
    (pc = "done" /\ call.op = "cosine_similarity"
        /\ (IsZeroVector(vec1) \/ IsZeroVector(vec2))) => similarity = Zero

\* a zero vector against a vector that is not zero, and two zero vectors
C9_Witness ==
    /\ pc = "done" /\ call.op = "cosine_similarity"
    /\ Len(vec1) = 3 /\ IsZeroVector(vec1) /\ ~IsZeroVector(vec2)
    /\ similarity = Zero

\* C10: cosine_similarity(v, v) is 1.0 for every vector v that is not zero
C10_IdenticalVectorsGiveOne ==
    (pc = "done" /\ call.op = "cosine_similarity"
        /\ vec1 = vec2 /\ ~IsZeroVector(vec1)) => similarity = One

\* v has two components that differ
C10_Witness ==
    /\ pc = "done" /\ call.op = "cosine_similarity"
    /\ vec1 = vec2 /\ Len(vec1) = 3 /\ vec1[1] # vec1[2] /\ vec1[2] # 0 /\ vec1[1] # 0
    /\ similarity = One

----------------------------------------------------------------------------
(* Query-by-text: identical vector, position filter, failing embedding call *)

\* a and b point the same way: their cosine is 1
Parallel(a, b) ==
    LET ab == a[1] * b[1] + a[2] * b[2]
        aa == a[1] * a[1] + a[2] * a[2]
        bb == b[1] * b[1] + b[2] * b[2]
    IN ab > 0 /\ ab * ab = aa * bb

\* records that pass the filters of a search and carry the query vector itself
IdenticalToQuery ==
    {i \in Survivors : /\ embeddings_data[i].embedding = call.query_embedding
                       /\ \A j \in 1..(i - 1) :
                             ~Parallel(embeddings_data[j].embedding,
                                       embeddings_data[i].embedding)}

C17_EmbeddingFailurePropagates ==
    (IsSearch /\ call.service = Failure) =>
        /\ outcome = [kind |-> "raise", value |-> "EmbeddingError"]
        /\ embedding_calls = 1
        /\ scanned = 0

\* the call failed on a store that holds records
C17_Witness ==
    /\ IsSearch /\ call.service = Failure
    /\ Len(embeddings_data) = 2
    /\ outcome.kind = "raise"

\* C19: with a position filter every returned triple has that position and,
\* when top_k does not truncate, every record of the asked system with that
\* position is returned; without one the records of both positions are
C19_PositionFilter ==
    (IsSearch /\ HasReturned) =>
        /\ call.position_filter # None =>
              \A k \in 1..Len(Result) : Result[k][2] = call.position_filter
        /\ call.top_k >= Len(embeddings_data) =>
              \A name \in CardNames, position \in Positions :
                  CountIn(Result, name, position)
                      = IF call.position_filter \in {None, position}
                        THEN CountAmong(InAskedSystem, name, position)
                        ELSE 0

\* a filtered search leaves out a record of the asked system in the other position
C19_Witness ==
    /\ IsSearch /\ HasReturned
    /\ call.position_filter = "reversed"
    /\ Len(Result) = 1
    /\ Cardinality(InAskedSystem) = 2

\* a search without position filter returns both positions
C19_WitnessBoth ==
    /\ IsSearch /\ HasReturned
    /\ call.position_filter = None
    /\ Len(Result) = 2
    /\ Result[1][2] # Result[2][2]

----------------------------------------------------------------------------
(* Query-by-card in the two positions *)

OtherPosition(position) == IF position = "upright" THEN "reversed" ELSE "upright"

\* the records of the queried card in the other position, in the asked system
OtherIndices ==
    {i \in InAskedSystem : /\ embeddings_data[i].card_name = call.card_name
                           /\ embeddings_data[i].position = OtherPosition(call.position)}
FirstOther == CHOOSE i \in OtherIndices : \A j \in OtherIndices : i <= j

\* what the same query gives for the other position
OtherOutcome ==
    find_similar_cards(call.card_name, OtherPosition(call.position), embeddings_data,
                       call.top_k, call.exclude_self, call.exclude_same_card,
                       call.system_filter)

\* the records that are candidates of both queries
SurvivesBoth ==
    {i \in InAskedSystem :
        IF call.exclude_same_card
        THEN embeddings_data[i].card_name # call.card_name
        ELSE ~(call.exclude_self /\ embeddings_data[i].card_name = call.card_name)}

\* the claim of C20 as it was made: the two queries never return the same list
\* when the two records of the card carry different embeddings
C20_Original ==
    (IsSimilar /\ HasReturned /\ OtherIndices # {}
        /\ embeddings_data[FirstTarget].embedding # embeddings_data[FirstOther].embedding)
    => outcome # OtherOutcome

\* C20: each query ranks against the embedding of the record of the queried
\* position, never the other position's; the two queries return different lists
\* when top_k does not truncate and some candidate of both, the only record of
\* the asked system with its (card_name, position), is not equally similar to
\* the two embeddings
C20_RanksAgainstQueriedPosition ==
    (IsSimilar /\ HasReturned) =>
        /\ \A k \in 1..Len(Result) :
              \E i \in Survivors :
                  Result[k] = <<embeddings_data[i].card_name, embeddings_data[i].position,
                                cosine_similarity(embeddings_data[FirstTarget].embedding,
                                                  embeddings_data[i].embedding)>>
        /\ ( /\ OtherIndices # {}
             /\ call.top_k >= Len(embeddings_data)
             /\ \E i \in SurvivesBoth :
                   /\ CountAmong(InAskedSystem, embeddings_data[i].card_name,
                                 embeddings_data[i].position) = 1
                   /\ cosine_similarity(embeddings_data[FirstTarget].embedding,
                                        embeddings_data[i].embedding)
                        # cosine_similarity(embeddings_data[FirstOther].embedding,
                                            embeddings_data[i].embedding) )
           => outcome # OtherOutcome

\* a reversed query on a store that holds the upright record first, with another
\* embedding, returns that upright record ranked against the reversed one
C20_Witness ==
    /\ IsSimilar /\ HasReturned
    /\ call.position = "reversed"
    /\ OtherIndices # {} /\ FirstOther < FirstTarget
    /\ embeddings_data[FirstTarget].embedding # embeddings_data[FirstOther].embedding
    /\ Len(Result) >= 1
    /\ outcome # OtherOutcome

----------------------------------------------------------------------------
(* The formatting layer *)

IsFormat == pc = "done" /\ call.op = "format_results_as_data"
IsDisplay == pc = "done" /\ call.op = "display_search_results"

\* the names the card store holds
StoredNames(cards_data) == {cards_data[k].name : k \in DOMAIN cards_data}
\* the results whose card_name is in the card store, in their order
Kept(results, cards_data) ==
    SelectSeq(results, LAMBDA r : r[1] \in StoredNames(cards_data))
\* the card of a stored name
StoredCard(cards_data, name) ==
    cards_data[CHOOSE k \in DOMAIN cards_data : cards_data[k].name = name]

\* C12: format_results_as_data returns, without raising, one entry for each
\* input result whose card_name is in the card store and none for the others:
\* the entries are those results, in their input order, with their name,
\* position and score
C12_SkipsAbsentCards ==
    IsFormat =>
        LET kept == Kept(call.results, call.cards_data)
        IN /\ outcome.kind = "return"
           /\ Len(outcome.value) = Len(kept)
           /\ \A k \in 1..Len(kept) :
                 /\ outcome.value[k].card_name = kept[k][1]
                 /\ outcome.value[k].position = kept[k][2]
                 /\ outcome.value[k].similarity.value = kept[k][3]

\* an absent card followed by a stored one: the stored one is the whole output
C12_Witness ==
    /\ IsFormat
    /\ Len(call.results) = 2
    /\ call.results[1][1] \notin StoredNames(call.cards_data)
    /\ call.results[2][1] \in StoredNames(call.cards_data)
    /\ Len(outcome.value) = 1
    /\ outcome.value[1].card_name = call.results[2][1]

RECURSIVE Flatten(_)
\* everything printed, as one text
Flatten(prints) == IF prints = <<>> THEN <<>> ELSE Head(prints) \o Flatten(Tail(prints))

\* what a parser makes of everything display_search_results printed
ParsedOutput == json_loads(Flatten(stdout))
IsJsonDisplay == IsDisplay /\ call.output_format = "json"

\* an entry with exactly the four fields, a float similarity, and strings
\* for the rest, the meaning not empty
WellFormedEntry(entry) ==
    /\ DOMAIN entry = {"card_name", "position", "similarity", "meaning"}
    /\ entry["card_name"].type = "str"
    /\ entry["position"].type = "str"
    /\ entry["similarity"].type = "float"
    /\ entry["meaning"].type = "str"
    /\ entry["meaning"].value.len > 0

\* C13 as stated: the parsed JSON output has as many entries as the input
\* results, entry k being result k
C13_Original ==
    IsJsonDisplay =>
        /\ ParsedOutput.ok
        /\ Len(ParsedOutput.value) = Len(call.results)
        /\ \A k \in 1..Len(call.results) :
              /\ WellFormedEntry(ParsedOutput.value[k])
              /\ ParsedOutput.value[k]["card_name"].value = call.results[k][1]
              /\ ParsedOutput.value[k]["position"].value = call.results[k][2]

\* C13: the JSON output of display_search_results parses into a list with one
\* entry for each input result whose card_name is in the card store, in the
\* order of the input results, each entry carrying card_name, position, a
\* float similarity (the result's score) and a non-empty meaning string
C13_JsonRoundTrip ==
    IsJsonDisplay =>
        LET kept == Kept(call.results, call.cards_data)
        IN /\ ParsedOutput.ok
           /\ Len(ParsedOutput.value) = Len(kept)
           /\ \A k \in 1..Len(kept) :
                 /\ WellFormedEntry(ParsedOutput.value[k])
                 /\ ParsedOutput.value[k]["card_name"].value = kept[k][1]
                 /\ ParsedOutput.value[k]["position"].value = kept[k][2]
                 /\ ParsedOutput.value[k]["similarity"].value = kept[k][3]

\* two stored results in JSON: the parsed list has both, in order
C13_Witness ==
    /\ IsJsonDisplay
    /\ Len(call.results) = 2
    /\ call.results[1][1] # call.results[2][1]
    /\ ParsedOutput.ok
    /\ Len(ParsedOutput.value) = 2
    /\ ParsedOutput.value[1]["card_name"].value = call.results[1][1]
    /\ ParsedOutput.value[2]["card_name"].value = call.results[2][1]

\* a result of an absent card in JSON: the parsed list is shorter than the input
C13_WitnessSkipped ==
    /\ IsJsonDisplay
    /\ ParsedOutput.ok
    /\ Len(ParsedOutput.value) = 1
    /\ Len(call.results) = 2

\* the interpretation store holds text for (card, system, position)
HoldsText(interpretations_data, name, system, position) ==
    /\ interpretations_data.kind = "dict"
    /\ name \in DOMAIN interpretations_data.items
    /\ system \in DOMAIN interpretations_data.items[name]
    /\ position \in DOMAIN interpretations_data.items[name][system]

\* the meaning the contract gives to a result of a stored card
ContractMeaning(r) ==
    IF call.system # "combined"
       /\ HoldsText(call.interpretations_data, r[1], call.system, r[2])
    THEN call.interpretations_data.items[r[1]][call.system][r[2]]
    ELSE IF r[2] = "upright" THEN StoredCard(call.cards_data, r[1]).desc
    ELSE StoredCard(call.cards_data, r[1]).rdesc

\* C14: the meaning of every entry of format_results_as_data is the
\* system-specific text when the system is not 'combined' and the
\* interpretation store holds text for the entry's (card, system, position),
\* and otherwise the card's desc for 'upright' and its rdesc for any other position
C14_MeaningSelection ==
    IsFormat =>
        LET kept == Kept(call.results, call.cards_data)
        IN /\ Len(outcome.value) = Len(kept)
           /\ \A k \in 1..Len(kept) : outcome.value[k].meaning = ContractMeaning(kept[k])

\* one call that takes a system-specific text for its first entry and falls
\* back to the reversed description for its second, the store having no
\* reversed text for that card and system
C14_Witness ==
    /\ IsFormat
    /\ call.system # "combined"
    /\ Len(outcome.value) = 2
    /\ HoldsText(call.interpretations_data, call.results[1][1], call.system,
                 call.results[1][2])
    /\ outcome.value[1].meaning.of = <<call.results[1][1], call.system, call.results[1][2]>>
    /\ call.results[2][2] = "reversed"
    /\ call.results[2][1] \in DOMAIN call.interpretations_data.items
    /\ ~HoldsText(call.interpretations_data, call.results[2][1], call.system, "reversed")
    /\ outcome.value[2].meaning = StoredCard(call.cards_data, call.results[2][1]).rdesc

\* system 'combined' with a store that has a 'combined' entry for the card:
\* the entry is not read, the meaning is the card's description
C14_WitnessCombined ==
    /\ IsFormat
    /\ call.system = "combined"
    /\ Len(outcome.value) >= 1
    /\ HoldsText(call.interpretations_data, call.results[1][1], "combined",
                 call.results[1][2])
    /\ outcome.value[1].meaning = StoredCard(call.cards_data, call.results[1][1]).desc

----------------------------------------------------------------------------
(* The command line *)

\* the run is a one-shot query, not interactive mode
OneShot == ~(args.interactive \/ (~Given(args.query) /\ ~Given(args.similar)))
Structured == OutputFormat(args) \in {"json", "yaml"}

\* the result list of the run's query, serialized in the run's output format
Serialized ==
    LET formatted_data == format_results_as_data(outcome.value, load_cards, args.system,
                                                 load_interpretations)
    IN IF OutputFormat(args) = "json" THEN json_dumps(formatted_data)
       ELSE yaml_dump(formatted_data)

\* no print on standard output is a header, a separator, a Similarity line
\* or a status line
NoHumanOutput ==
    \A i \in DOMAIN stdout :
       /\ stdout[i] # Line("SEARCH RESULTS")
       /\ \A j \in DOMAIN stdout[i] :
             stdout[i][j].t \notin {"separator", "Similarity:", "status"}

\* C15 as stated: with --json or --yaml, whatever the command line run writes
\* to standard output is the serialized result list and nothing else (nothing
\* at all when no list was produced), so no header, separator, Similarity
\* line or status line
C15_Original ==
    (pc # "start" /\ Structured) =>
        /\ stdout = <<>> \/ (outcome.kind = "return" /\ stdout = <<Serialized>>)
        /\ NoHumanOutput

CacheAbsent == ~environ.embeddings_file
\* "Error: " and the message of load_embeddings were printed
LoadErrorPrinted == \E i \in DOMAIN stdout : stdout[i] = ErrorLine(FileNotFoundMessage)
NoQueryAttempted == query_calls = 0 /\ embedding_calls = 0 /\ call = NoCall

\* C16 as stated: in every run with the cache file absent load_embeddings
\* fails with its message and no query function is called
C16_Original ==
    (CacheAbsent /\ pc # "start") => (LoadErrorPrinted /\ NoQueryAttempted)

\* C16: with the cache file absent no run, one-shot or interactive, ever
\* calls search_cards or find_similar_cards; a run that has its API key ends
\* with the message of load_embeddings printed, and a run without the key
\* ends at the API-key check, before load_embeddings is called
C16_NoQueryWithoutCache ==
    CacheAbsent =>
        /\ NoQueryAttempted
        /\ pc # "start" =>
              /\ pc = "done"
              /\ environ.api_key => LoadErrorPrinted /\ exit_code = (IF OneShot THEN 1 ELSE 0)
              /\ ~environ.api_key => stdout = ApiKeyLines

\* a one-shot query run that stops at the missing cache file
C16_Witness ==
    /\ CacheAbsent /\ environ.api_key /\ OneShot /\ Given(args.query)
    /\ pc = "done" /\ LoadErrorPrinted /\ exit_code = 1 /\ query_calls = 0

\* interactive mode stops at the missing cache file before its first prompt
C16_WitnessInteractive ==
    /\ CacheAbsent /\ environ.api_key /\ ~OneShot
    /\ pc = "done" /\ LoadErrorPrinted /\ turns = 0 /\ query_calls = 0

\* a print that begins with the error mark
ErrorPrefixed(print) == print # <<>> /\ print[1].t = "ballot x"
ErrorPrinted(prints) == \E i \in DOMAIN prints : ErrorPrefixed(prints[i])
\* the run got past the API-key check and the loading of the data
Loaded == environ.api_key /\ environ.embeddings_file
\* no card of cards.json has this name, whatever the case of the letters
UnknownCard(name) == \A k \in DOMAIN load_cards : lower(load_cards[k].name) # lower(name)
\* the line is one of the commands that leave the loop
IsQuit(line) == Len(line) = 1 /\ lower(line[1]) \in {"/quit", "/exit", "/q"}

\* the one-shot query failed: unknown card, or the query function raised
OneShotFailed ==
    /\ OneShot /\ Loaded /\ pc = "done"
    /\ \/ Given(args.similar) /\ UnknownCard(args.similar)
       \/ outcome.kind = "raise"
\* the last line of the interactive loop was a query that failed
TurnFailed ==
    /\ ~OneShot /\ Loaded /\ turns > 0
    /\ \/ Len(last_input) = 2 /\ UnknownCard(last_input[2])
       \/ outcome.kind = "raise"

C18_WitnessInteractiveFailure ==
    /\ TurnFailed /\ call.op = "search_cards" /\ call.service = Failure
    /\ pc = "prompt"

\* a one-shot search whose embedding call fails
C18_WitnessOneShot ==
    /\ OneShotFailed /\ call.op = "search_cards" /\ call.service = Failure
    /\ exit_code = 1 /\ ErrorPrinted(stderr)

\* a one-shot --similar with a card cards.json does not have
C18_WitnessUnknownCard ==
    /\ OneShotFailed /\ Given(args.similar) /\ UnknownCard(args.similar)
    /\ exit_code = 1 /\ ErrorPrinted(stdout)


----------------------------------------------------------------------------
(* Sessions of several queries *)

InSession == pc = "session"

\* two outcomes are the same raise or the same returned list
SameOutcome(a, b) == a.kind = b.kind /\ a.value = b.value

C21_WitnessFailing ==
    /\ InSession
    /\ Len(log) = 3
    /\ log[1].call = log[3].call
    /\ log[1].outcome.kind = "raise"
    /\ log[2].outcome.kind = "return"
    /\ log[2].outcome.value # <<>>


----------------------------------------------------------------------------
(* The two entry points against each other *)

\* a find_similar_cards call that excludes nothing, and that found its card
NothingExcluded ==
    /\ IsSimilar
    /\ ~call.exclude_self
    /\ ~call.exclude_same_card
    /\ HasReturned

\* C22: find_similar_cards with exclude_self and exclude_same_card both false
\* returns the list that the ranking of search_cards gives for a query vector
\* equal to the embedding of the target record, with the same system, the same
\* top_k and no position filter
C22_SameRankingAsSearch ==
    NothingExcluded =>
        Result = search_cards(embeddings_data[FirstTarget].embedding, embeddings_data,
                              call.top_k, None, call.system_filter)

\* such a call on a store of two records of the asked system: both are
\* returned, the target among them
C22_Witness ==
    /\ NothingExcluded
    /\ Len(Result) = 2
    /\ \E k \in 1..2 : Result[k][1] = call.card_name /\ Result[k][2] = call.position
    /\ Result[1][3] # Result[2][3]


----------------------------------------------------------------------------
(* The card lookup and the callers that resolve a typed name *)

\* the run, or the last line of the loop, asked for the cards similar to a card
AskedSimilar ==
    \/ OneShot /\ Loaded /\ pc = "done" /\ Given(args.similar)
    \/ ~OneShot /\ Loaded /\ turns > 0 /\ Len(last_input) = 2
\* the card name as the user typed it
Typed == IF OneShot THEN args.similar ELSE last_input[2]
\* the names of cards.json, and whether a record of the loaded store has a name
CanonicalNames == {load_cards[k].name : k \in DOMAIN load_cards}
InStore(name) == \E i \in DOMAIN embeddings_data : embeddings_data[i].card_name = name
\* the line that reports a card that was not found
CardNotFoundPrinted(name) == \E i \in DOMAIN stdout : stdout[i] = CardNotFoundLine(name)

\* C23: the callers resolve the typed name against cards.json without regard
\* to letter case and call find_similar_cards with the name as cards.json
\* spells it; with no such card they print 'Card not found' and make no call;
\* and find_similar_cards itself matches exactly: given the typed spelling,
\* which no record of the store has, it raises the card-not-found error
C23_ExactLookupCallersResolve ==
    AskedSimilar =>
        IF UnknownCard(Typed)
        THEN call = NoCall /\ CardNotFoundPrinted(Typed)
        ELSE /\ call.op = "find_similar_cards"
             /\ call.card_name \in CanonicalNames
             /\ lower(call.card_name) = lower(Typed)
             /\ ~InStore(Typed) =>
                   find_similar_cards(Typed, call.position, embeddings_data, call.top_k,
                                      call.exclude_self, call.exclude_same_card,
                                      call.system_filter) = Raised("ValueError")

\* 'the fool' was typed on the command line, the call was made for 'The Fool'
\* and returned a card, and one record of the store is of The Fool
C23_Witness ==
    /\ AskedSimilar /\ OneShot
    /\ Typed = "the fool" /\ call.op = "find_similar_cards"
    /\ call.card_name = "The Fool"
    /\ InStore("The Fool") /\ ~InStore("the fool")
    /\ outcome.kind = "return" /\ Len(outcome.value) = 1

\* the same at the prompt of the loop
C23_WitnessInteractive ==
    /\ AskedSimilar /\ ~OneShot
    /\ Typed = "the fool" /\ call.op = "find_similar_cards"
    /\ call.card_name = "The Fool"
    /\ outcome.kind = "return" /\ Len(outcome.value) = 1

\* a card that cards.json does not have, typed at the prompt after a query
\* that was made
C23_WitnessNotFound ==
    /\ AskedSimilar /\ ~OneShot
    /\ UnknownCard(Typed) /\ call = NoCall /\ query_calls = 1


----------------------------------------------------------------------------
(* The human-readable rendering *)

IsHumanDisplay == IsDisplay /\ call.output_format = None

\* the tokens of the given kinds among everything printed, in print order
Tokens(kinds) == SelectSeq(Flatten(stdout), LAMBDA tok : tok.t \in kinds)

\* what format_results_as_data makes of the arguments of the display call
DataEntries ==
    format_results_as_data(call.results, call.cards_data, call.system,
                           call.interpretations_data)

\* C24: in human-readable mode display_search_results shows, entry by entry,
\* the meaning format_results_as_data chooses for the same results, card
\* store, system and interpretation store (its first 100 characters without
\* the art flag)
C24_SameMeaningInBothPaths ==
    IsHumanDisplay =>
        LET shown == Tokens({"Meaning:"})
        IN /\ Len(shown) = Len(DataEntries)
           /\ \A k \in DOMAIN shown :
                 /\ shown[k].meaning.of = DataEntries[k].meaning.of
                 /\ call.show_art => shown[k].meaning = DataEntries[k].meaning

\* a display with the art flag of a result whose meaning is the text of the
\* asked system, and of one whose meaning falls back to the description
C24_Witness ==
    /\ IsHumanDisplay /\ call.show_art
    /\ Len(DataEntries) = 2
    /\ call.system # "combined"
    /\ HoldsText(call.interpretations_data, call.results[1][1], call.system,
                 call.results[1][2])
    /\ Tokens({"Meaning:"})[1].meaning
          = call.interpretations_data.items[call.results[1][1]][call.system][call.results[1][2]]
    /\ ~HoldsText(call.interpretations_data, call.results[2][1], call.system,
                  call.results[2][2])

\* C25: without the art flag the meaning shown is the first 100 characters of
\* the meaning, the whole of it when it has 100 characters or fewer, followed
\* by an ellipsis, and no art is printed; with the flag the whole meaning is
\* shown without ellipsis and after it the ASCII art of the card, the reversed
\* drawing for a reversed result and the upright drawing otherwise
C25_TruncationAndArt ==
    IsHumanDisplay =>
        LET kept == Kept(call.results, call.cards_data)
            shown == Tokens({"Meaning:", "art"})
        IN IF call.show_art
           THEN /\ Len(shown) = 2 * Len(kept)
                /\ \A k \in DOMAIN kept :
                      /\ shown[2 * k - 1].t = "Meaning:"
                      /\ shown[2 * k - 1].meaning = ContractMeaning(kept[k])
                      /\ ~shown[2 * k - 1].ellipsis
                      /\ shown[2 * k].t = "art"
                      /\ shown[2 * k].s =
                            (IF kept[k][2] = "reversed"
                             THEN StoredCard(call.cards_data, kept[k][1]).reversed
                             ELSE StoredCard(call.cards_data, kept[k][1]).card)
           ELSE /\ Len(shown) = Len(kept)
                /\ \A k \in DOMAIN kept :
                      /\ shown[k].t = "Meaning:"
                      /\ shown[k].ellipsis
                      /\ shown[k].meaning.of = ContractMeaning(kept[k]).of
                      /\ shown[k].meaning.len = Min(ContractMeaning(kept[k]).len, 100)

\* without the flag: a meaning of 101 characters cut to 100 and a meaning of
\* 38 characters shown whole
C25_Witness ==
    /\ IsHumanDisplay /\ ~call.show_art
    /\ Len(Tokens({"Meaning:"})) = 2
    /\ ContractMeaning(call.results[1]).len = 101
    /\ Tokens({"Meaning:"})[1].meaning.len = 100
    /\ ContractMeaning(call.results[2]).len = 38
    /\ Tokens({"Meaning:"})[2].meaning.len = 38

\* with the flag: the reversed drawing for a reversed result, the upright
\* drawing for an upright one, each after a meaning of more than 100 characters
C25_WitnessArt ==
    /\ IsHumanDisplay /\ call.show_art
    /\ Len(Tokens({"art"})) = 2
    /\ call.results[1][2] = "reversed" /\ call.results[2][2] = "upright"
    /\ Tokens({"art"})[1].s = StoredCard(call.cards_data, call.results[1][1]).reversed
    /\ Tokens({"art"})[2].s = StoredCard(call.cards_data, call.results[2][1]).card
    /\ \A k \in 1..2 : Tokens({"Meaning:"})[k].meaning.len > 100

\* the rank, name, position and similarity shown for an entry are those of the
\* result: the position in capitals, the similarity as the number of
\* ten-thousandths nearest to the score
ShowsResult(rank, sim, r) ==
    /\ rank.t = "rank" /\ sim.t = "Similarity:"
    /\ rank.card_name = r[1]
    /\ rank.position = (IF r[2] = "upright" THEN "UPRIGHT" ELSE "REVERSED")
    /\ ~sim.value.nan /\ sim.value.sign = r[3].s
    /\ LET v == sim.value.ten_thousandths
       IN /\ (2 * v - 1) * (2 * v - 1) * r[3].d <= 400000000 * r[3].n
          /\ 400000000 * r[3].n < (2 * v + 1) * (2 * v + 1) * r[3].d

\* the indices of the results whose card is in the card store, and the k-th
KeptIndices == {i \in DOMAIN call.results : call.results[i][1] \in StoredNames(call.cards_data)}
NthKept(k) == CHOOSE i \in KeptIndices : Cardinality({j \in KeptIndices : j <= i}) = k

\* C26 as stated: the entries displayed are numbered 1, 2, 3, ... without a
\* gap, whether or not the results name cards absent from the card store,
\* each with its name, position in capitals and similarity to 4 decimals
C26_Original ==
    IsHumanDisplay =>
        LET shown == Tokens({"rank", "Similarity:"})
        IN /\ Len(shown) = 2 * Cardinality(KeptIndices)
           /\ \A k \in 1..Cardinality(KeptIndices) :
                 /\ ShowsResult(shown[2 * k - 1], shown[2 * k], call.results[NthKept(k)])
                 /\ shown[2 * k - 1].i = k

\* C26: each entry displayed carries the 1-based rank of its result in the
\* results sequence, with its name, position in capitals and similarity to 4
\* decimals, and the entries come in rank order; a result whose card is absent
\* from the card store is not displayed and its number is not given to
\* another entry, so the numbers run 1, 2, 3, ... exactly when no result is
\* passed over before them
C26_NumberedByRank ==
    IsHumanDisplay =>
        LET shown == Tokens({"rank", "Similarity:"})
        IN /\ Len(shown) = 2 * Cardinality(KeptIndices)
           /\ \A k \in 1..Cardinality(KeptIndices) :
                 /\ ShowsResult(shown[2 * k - 1], shown[2 * k], call.results[NthKept(k)])
                 /\ shown[2 * k - 1].i = NthKept(k)

\* two results of stored cards, shown as 1 and 2, the second with 0.7071
C26_Witness ==
    /\ IsHumanDisplay
    /\ Cardinality(KeptIndices) = 2
    /\ Tokens({"rank"})[1].i = 1 /\ Tokens({"rank"})[2].i = 2
    /\ Tokens({"rank"})[2].position = "REVERSED"
    /\ Tokens({"Similarity:"})[2].value.ten_thousandths = 7071

\* a result of an absent card before one of a stored card, which is shown as 2
C26_WitnessGap ==
    /\ IsHumanDisplay
    /\ Len(call.results) = 2
    /\ KeptIndices = {2}
    /\ Len(Tokens({"rank"})) = 1
    /\ Tokens({"rank"})[1].i = 2


----------------------------------------------------------------------------
(* The store generate_embeddings builds *)

InGenerate == pc \in {"generating", "generated"}

TripleOf(r) == <<r.card_name, r.position, r.interpretation_system>>
\* the five systems a store holds
StoredSystems ==
    {"rws_traditional", "thoth_crowley", "jungian_psychological", "modern_intuitive",
     "combined"}
\* every triple of the cards given, and those whose embedding call failed
AllTriples ==
    {<<environ.cards[k].name, p, s>> : k \in DOMAIN environ.cards, p \in Positions,
                                       s \in StoredSystems}
FailedTriples == {log[i].call : i \in {j \in DOMAIN log : log[j].outcome = Failure}}
RecordsOf(name) == {i \in DOMAIN embeddings_data : embeddings_data[i].card_name = name}

\* C27: for cards of unique names, no two records of the store generate_embeddings
\* builds have the same (card_name, position, interpretation_system); what it
\* returns holds one record for each triple whose embedding call succeeded and
\* none for the others, every triple having been tried; so with no failure it
\* holds |cards| x 2 x 5 records, 10 for each card
C27_UniqueTriplesTenPerCard ==
    InGenerate =>
        /\ \A i, j \in DOMAIN embeddings_data :
              TripleOf(embeddings_data[i]) = TripleOf(embeddings_data[j]) => i = j
        /\ \A i \in DOMAIN embeddings_data :
              TripleOf(embeddings_data[i]) \in AllTriples \ FailedTriples
        /\ pc = "generated" =>
              /\ outcome = Returned(embeddings_data)
              /\ {TripleOf(embeddings_data[i]) : i \in DOMAIN embeddings_data}
                    = AllTriples \ FailedTriples
              /\ embedding_calls = Len(environ.cards) * 2 * 5
              /\ Len(embeddings_data)
                    = Len(environ.cards) * 2 * 5 - Cardinality(FailedTriples)
              /\ FailedTriples = {} =>
                    \A k \in DOMAIN environ.cards :
                       Cardinality(RecordsOf(environ.cards[k].name)) = 10

\* two cards and no failure: 20 records
C27_Witness ==
    /\ pc = "generated"
    /\ Len(environ.cards) = 2
    /\ FailedTriples = {}
    /\ Len(embeddings_data) = 20

\* two cards, and the call for The Fool, reversed, combined fails alone: the
\* 19 other records are there, those of the calls after it among them
C27_WitnessFailure ==
    /\ pc = "generated"
    /\ environ.cards = <<TheFool, TheMagician>>
    /\ FailedTriples = {<<"The Fool", "reversed", "combined">>}
    /\ Len(embeddings_data) = 19
    /\ Cardinality(RecordsOf("The Magician")) = 10


----------------------------------------------------------------------------
(* tarot.py: the card of the day *)

\* what the step prints
NewPrints == Flatten(SubSeq(stdout', Len(stdout) + 1, Len(stdout')))
\* the cards the step displays
CardsShown == SelectSeq(NewPrints, LAMBDA tok : tok.t = "Card:")
\* the cards displayed so far
AllCardsShown == SelectSeq(Flatten(stdout), LAMBDA tok : tok.t = "Card:")

\* a pass of the menu loop that calls daily_card
DailyCardPass == turns' = turns + 1 /\ call'.op = "daily_card"

\* the file holds a card stored for the current date
StoredForToday == daily_file.state = "json" /\ daily_file.date = today

\* C28: when the daily-card file holds a card stored for the current date,
\* daily_card displays the stored name and orientation, draws no card and
\* leaves the file as it is; on another date, or with the file missing or
\* unreadable, it draws one card, displays it and stores it with the date
C28_SameCardAllDay ==
    [][DailyCardPass =>
          /\ Len(CardsShown) = 1
          /\ IF StoredForToday
             THEN /\ CardsShown[1].card_name = daily_file.card_name
                  /\ CardsShown[1].is_reversed = daily_file.is_reversed
                  /\ draws' = draws
                  /\ daily_file' = daily_file
             ELSE /\ draws' = draws + 1
                  /\ daily_file' = DailyData(today, CardsShown[1].card_name,
                                             CardsShown[1].is_reversed)]_vars

\* two calls on the same day, the first finding the card of the day before:
\* one card was drawn, and it was displayed twice and is the one stored
C28_Witness ==
    /\ call.op = "daily_card"
    /\ turns = 2
    /\ draws = 1
    /\ Len(AllCardsShown) = 2
    /\ AllCardsShown[1].card_name = AllCardsShown[2].card_name
    /\ AllCardsShown[1].is_reversed = AllCardsShown[2].is_reversed
    /\ daily_file = DailyData(1, AllCardsShown[2].card_name, AllCardsShown[2].is_reversed)
    /\ today = 1

\* a call on day 1 and a call on day 2: two cards were drawn, the second is
\* stored with day 2
C28_WitnessNextDay ==
    /\ call.op = "daily_card"
    /\ draws = 2
    /\ today = 2
    /\ Len(AllCardsShown) = 2
    /\ AllCardsShown[1].card_name # AllCardsShown[2].card_name
    /\ daily_file = DailyData(2, AllCardsShown[2].card_name, AllCardsShown[2].is_reversed)



----------------------------------------------------------------------------
(* tarot.py: the interpretation mode *)

\* the four keys of INTERPRETATION_SYSTEMS, and the key a number stands for
FourKeys == {"rws_traditional", "thoth_crowley", "jungian_psychological", "modern_intuitive"}
KeyNumbered(s) ==
    CASE s = "1" -> "rws_traditional"
      [] s = "2" -> "thoth_crowley"
      [] s = "3" -> "jungian_psychological"
      [] s = "4" -> "modern_intuitive"

\* a pass of the menu loop that calls change_interpretation_mode
ChangeModePass == turns' = turns + 1 /\ call'.op = "change_interpretation_mode"

\* C29: the current interpretation mode starts as 'rws_traditional' and is at
\* all times one of the four keys of INTERPRETATION_SYSTEMS; it changes only
\* in change_interpretation_mode, to the key numbered by the line typed when
\* that line is a number from 1 to 4; a number out of range, a line that is
\* not a number and the empty line leave it as it is, and so does every other
\* choice of the menu
C29_ModeIsOneOfFourKeys ==
    /\ current_interpretation_mode = "rws_traditional"
    /\ [](current_interpretation_mode \in FourKeys)
    /\ [][IF ChangeModePass /\ last_input'[2] \in {"1", "2", "3", "4"}
          THEN current_interpretation_mode' = KeyNumbered(last_input'[2])
          ELSE current_interpretation_mode' = current_interpretation_mode]_vars

\* 3 was typed: the mode is the third key, and the menu of the next pass
\* shows its name
C29_Witness ==
    /\ call.op = "list_all_cards"
    /\ turns = 2
    /\ current_interpretation_mode = "jungian_psychological"
    /\ \E k \in DOMAIN stdout :
          stdout[k] = <<[t |-> "mode changed", to |-> "Jungian/Psychological (Archetypes)"]>>
    /\ stdout[Len(stdout) - 2]
          = <<[t |-> "menu", current |-> "Jungian/Psychological (Archetypes)"]>>

\* 5 was typed after 3: "Invalid choice." and the mode is still the third key
C29_WitnessOutOfRange ==
    /\ call.op = "change_interpretation_mode"
    /\ last_input = <<"14", "5">>
    /\ turns = 2
    /\ current_interpretation_mode = "jungian_psychological"
    /\ stdout[Len(stdout) - 1] = <<[t |-> "ballot x"], [t |-> "text", s |-> " Invalid choice."]>>

\* a digit int does not accept: the error is printed by main, the mode stays
C29_WitnessRaised ==
    /\ call.op = "change_interpretation_mode"
    /\ outcome = Raised("ValueError")
    /\ last_input = <<"14", "U+00B2">>
    /\ current_interpretation_mode = "rws_traditional"


----------------------------------------------------------------------------
(* tarot.py: the reading history *)

\* a pass of the menu loop in which a reading option produced a reading and
\* the answer to the save question was y, in either letter case
ConfirmedReadingPass ==
    /\ turns' = turns + 1
    /\ call'.op \in {"single_card_reading", "yes_no_reading"}
    /\ outcome'.kind = "return"
    /\ last_input'[1] \in {"1", "5"}
    /\ last_input'[2] \in {"y", "Y"}

\* the step calls save_reading: one of its two messages is printed
SaveReadingCalled ==
    \E k \in DOMAIN NewPrints :
       \/ NewPrints[k].t = "Error saving reading"
       \/ NewPrints[k].t = "text" /\ NewPrints[k].s = "Reading saved to history!"

\* the readings stored in a history file, none when there is no file
StoredEntries(file) == IF file.state = "json" THEN file.entries ELSE <<>>

\* C30: save_reading is called only in a pass of the menu loop where a
\* reading option produced a reading and the user answered y, and in each such
\* pass; a call appends one entry, the reading with the time of the call,
\* after the entries stored before, which stay as they were and in their
\* order; when the history file cannot be read it is left as it was; no other
\* step changes the file
C30_HistoryAppendOnly ==
    [][/\ SaveReadingCalled <=> ConfirmedReadingPass
       /\ IF ConfirmedReadingPass /\ history_file # UnreadableFile
          THEN LET before == StoredEntries(history_file)
                   after == StoredEntries(history_file')
               IN /\ history_file'.state = "json"
                  /\ Len(after) = Len(before) + 1
                  /\ SubSeq(after, 1, Len(before)) = before
                  /\ after[Len(after)].timestamp = today
                  /\ after[Len(after)].spread = outcome'.value.spread
                  /\ after[Len(after)].cards = outcome'.value.cards
          ELSE history_file' = history_file]_vars

\* two readings saved after the one an earlier run stored: three entries, the
\* old one first, then the two in the order of the passes
C30_Witness ==
    /\ turns = 2
    /\ history_file.state = "json"
    /\ Len(history_file.entries) = 3
    /\ history_file.entries[1]
          = [timestamp |-> 0, spread |-> "single", cards |-> <<<<"The Magician", TRUE>>>>]
    /\ history_file.entries[2].spread = "single"
    /\ history_file.entries[2].timestamp = 1
    /\ history_file.entries[3].spread = "yes_no"
    /\ history_file.entries[3].timestamp = 2
    /\ history_file.entries[3].cards = outcome.value.cards

\* a reading answered with n: nothing is stored
C30_WitnessDeclined ==
    /\ call.op = "single_card_reading"
    /\ last_input = <<"1", "n">>
    /\ turns = 1
    /\ history_file = MissingFile

\* a reading answered with y when the file cannot be read: the error is
\* printed and the file is as it was
C30_WitnessUnreadable ==
    /\ call.op = "yes_no_reading"
    /\ last_input = <<"5", "y">>
    /\ history_file = UnreadableFile
    /\ \E k \in DOMAIN stdout : stdout[k] = <<[t |-> "ballot x"], [t |-> "Error saving reading"]>>

====
